---- MODULE Spec2Model ----
(***************************************************************************)
(* A model of the job queue's dispatcher and execution lifecycle: the      *)
(* claim transaction of a worker and the auto-heartbeat task of a runner   *)
(* (src/local/src/worker.rs), the wrapper that turns a job function's      *)
(* result into a terminal report (src/prefect/src/job_registry.rs), and    *)
(* the store operations Complete, Fail, Heartbeat, Checkpoint and          *)
(* ExpireSweep, whose code (job.rs, db_writer) is not part of the sources  *)
(* at hand and is modelled from sections 3, 4.5 and 4.7 of the             *)
(* specification.  It also covers the registry and the builder of a        *)
(* worker (JobRegistry::add, WorkerBuilder::build), the dispatcher's loop  *)
(* with its select! over the close, notify-ready and job-finished signals  *)
(* (WorkerInternal::run), and Queue::close (src/prefect/src/lib.rs); the   *)
(* pending-jobs monitor that fires notify-ready is modelled from section   *)
(* 4.6 of the specification.                                               *)
(*                                                                         *)
(* Time is the unix timestamp in whole seconds, as in the claim query      *)
(* (now.unix_timestamp()).  The worker's counter is an AtomicU16 and the   *)
(* budget arithmetic is u16: both wrap modulo 2^16.                        *)
(***************************************************************************)
EXTENDS Integers, Sequences, FiniteSets, Bags, TLC

VARIABLES
    now,        \* the clock: OffsetDateTime::now_utc().unix_timestamp()
    registry,   \* JobRegistry.jobs: job type -> weight of its JobDef
    worker,     \* WorkerInternal per worker: job_list, min/max_concurrency
    jobs,       \* the rows of active_jobs / done_jobs, indexed by job_id
    count,      \* RunningJobs.count of every worker (AtomicU16)
    pc,         \* where every worker's dispatcher loop stands
    rc,         \* run_ready_jobs' local running_count, loaded before the tx
    ready_jobs, \* run_ready_jobs' ready_jobs: claimed, runner not yet spawned
    runners,    \* the spawned runner tasks (a bag of records)
    builders,   \* what every built worker's WorkerBuilder was given
    registered, \* Workers: the ids of the workers in the queue's worker list
    notify_task_ready, \* ListeningWorker.notify_task_ready: a stored permit
    job_finished,      \* RunningJobs.job_finished: a stored permit
    tasks,      \* Queue.tasks, the close channel, the writer and close()'s call
    last_add,   \* how the last JobRegistry::add ended
    close_tx    \* CancellableTask.close_tx of every worker: the signal was sent

(* The queue facade, the worker list and the signals. *)
qvars == <<builders, registered, notify_task_ready, job_finished, tasks, last_add, close_tx>>

vars == <<now, registry, worker, jobs, count, pc, rc, ready_jobs, runners,
          builders, registered, notify_task_ready, job_finished, tasks, last_add, close_tx>>

----------------------------------------------------------------------------
(* Bounds of the model. *)

MaxJobs == 2
MaxTime == 3

(* At most this many of the submitted jobs are of the types p, s and e. *)
MaxLifeJobs == 1

(* Width of WorkerId-independent counters: count is an AtomicU16. *)
U16 == 65536

(* Option<T>: None and Some(x). *)
None == <<>>
Some(x) == <<x>>
Get(o) == o[1]

Max(a, b) == IF a >= b THEN a ELSE b
Min(a, b) == IF a <= b THEN a ELSE b

(* The workers that were built (Workers.add_worker gave them an id). *)
Workers == DOMAIN worker

----------------------------------------------------------------------------
(* WorkerBuilder::build: the concurrency limits of a built worker.         *)

(* A build that does not look at the weights. *)
JobsMaxConcurrencyOne(reg, job_list) == 1

JobsMaxConcurrency(reg, job_list) ==
    LET ws == {reg[t] : t \in job_list \cap DOMAIN reg} \cup
              (IF job_list \subseteq DOMAIN reg THEN {} ELSE {1})
    IN  IF ws = {} THEN 1 ELSE CHOOSE m \in ws : \A x \in ws : x <= m

(* A build that takes the requested max_concurrency as it is. *)
BuildWorkerNoFloor(reg, jobs_opt, min_opt, max_opt) ==
    LET job_list == IF jobs_opt = {} THEN DOMAIN reg ELSE jobs_opt
        jmax == JobsMaxConcurrency(reg, job_list)
        maxc == IF max_opt = None THEN jmax ELSE Get(max_opt)
        minc == Max(IF min_opt = None THEN maxc \div 2 ELSE Get(min_opt), 1)
    IN  [job_list |-> job_list, min_concurrency |-> minc, max_concurrency |-> maxc]

BuildWorker(reg, jobs_opt, min_opt, max_opt) ==
    LET job_list == IF jobs_opt = {} THEN DOMAIN reg ELSE jobs_opt
        jmax == JobsMaxConcurrency(reg, job_list)
        maxc == Max(IF max_opt = None THEN jmax ELSE Get(max_opt), jmax)
        minc == Max(IF min_opt = None THEN maxc \div 2 ELSE Get(min_opt), 1)
    IN  [job_list |-> job_list, min_concurrency |-> minc, max_concurrency |-> maxc]

----------------------------------------------------------------------------
(* The rows of the store.                                                  *)

JobIds == 1..Len(jobs)

Active(j) == jobs[j].status = "active"

(* The state a status query reports for a row. *)
JobState(j) ==
    IF ~Active(j) THEN jobs[j].status
    ELSE IF jobs[j].worker_id # None THEN "Running" ELSE "Pending"

(* NewJob as submitted: the retry, timeout and heartbeat settings go with   *)
(* the type.  The submitted payload is 0; checkpoints write other values.  *)
NewJobRow(job_type, priority, run_at, max_retries, timeout, heartbeat_increment) ==
    [ job_type |-> job_type,
      payload |-> 0,
      checkpointed_payload |-> None,
      heartbeat_increment |-> heartbeat_increment,
      priority |-> priority,
      run_at |-> IF run_at = None THEN now ELSE Get(run_at),
      current_try |-> 0,
      max_retries |-> max_retries,
      default_timeout |-> timeout,
      worker_id |-> None,
      started_at |-> None,
      expires_at |-> None,
      status |-> "active",
      run_info |-> <<>> ]

(* Retries: the backoff settings every submitted job carries (the model   *)
(* gives all jobs the same ones): initial interval in seconds, multiplier, *)
(* and the randomization as a percentage.                                  *)
Retries == [backoff_initial_interval |-> 1,
            backoff_multiplier |-> 2,
            backoff_randomization_pct |-> 100]

RECURSIVE Pow(_, _)
Pow(b, e) == IF e = 0 THEN 1 ELSE b * Pow(b, e - 1)

(* d = I * m^k * (1 + U[0, r]), in whole seconds. *)
BackoffBase(k) ==
    Retries.backoff_initial_interval * Pow(Retries.backoff_multiplier, k)

(* A delay drawn below the base interval: d = I * m^k * U[0, 1 + r]. *)
BackoffDelaysFromZero(k) ==
    0 .. (BackoffBase(k) * (100 + Retries.backoff_randomization_pct)) \div 100

BackoffDelays(k) ==
    BackoffBase(k) ..
        (BackoffBase(k) * (100 + Retries.backoff_randomization_pct)) \div 100

RunRecord(success, info) == [success |-> success, info |-> info]

(* A report that is applied to any active row. *)
OwnedByAnyone(row, w) == row.status = "active"

(* Does the operation come from the job's present owner? *)
OwnedBy(row, w) == row.status = "active" /\ row.worker_id = Some(w)

(* Complete that leaves the worker assignment in place. *)
CompleteRowKeepsWorker(row, info) ==
    [row EXCEPT !.status = "Succeeded",
                !.current_try = @ + 1,
                !.run_info = Append(@, RunRecord(TRUE, info))]

(* Complete(job_id, worker_id, info): append the success record, state     *)
(* Succeeded, clear the worker assignment.  The data model's invariants 2  *)
(* and 3 make current_try the number of finished attempts.                 *)
CompleteRow(row, info) ==
    [row EXCEPT !.status = "Succeeded",
                !.worker_id = None,
                !.expires_at = None,
                !.current_try = @ + 1,
                !.run_info = Append(@, RunRecord(TRUE, info))]

(* Fail that leaves current_try as it is when the failure is terminal. *)
FailRowKeepsTry(row, info, t, d) ==
    LET k == row.current_try IN
    IF k + 1 > row.max_retries
    THEN [row EXCEPT !.status = "Failed",
                     !.worker_id = None,
                     !.expires_at = None,
                     !.run_info = Append(@, RunRecord(FALSE, info))]
    ELSE [row EXCEPT !.run_at = t + d,
                     !.current_try = k + 1,
                     !.worker_id = None,
                     !.started_at = None,
                     !.expires_at = None,
                     !.run_info = Append(@, RunRecord(FALSE, info))]

(* Fail whose retry test is off by one: k > max_retries. *)
FailRowOneMore(row, info, t, d) ==
    LET k == row.current_try IN
    IF k > row.max_retries
    THEN [row EXCEPT !.status = "Failed",
                     !.worker_id = None,
                     !.expires_at = None,
                     !.current_try = k + 1,
                     !.run_info = Append(@, RunRecord(FALSE, info))]
    ELSE [row EXCEPT !.run_at = t + d,
                     !.current_try = k + 1,
                     !.worker_id = None,
                     !.started_at = None,
                     !.expires_at = None,
                     !.run_info = Append(@, RunRecord(FALSE, info))]

(* Fail that never retries. *)
FailRowNoRetry(row, info, t, d) ==
    [row EXCEPT !.status = "Failed",
                !.worker_id = None,
                !.expires_at = None,
                !.current_try = @ + 1,
                !.run_info = Append(@, RunRecord(FALSE, info))]

(* Fail(job_id, worker_id, info, now) on try k with delay d. *)
FailRow(row, info, t, d) ==
    LET k == row.current_try IN
    IF k + 1 > row.max_retries
    THEN [row EXCEPT !.status = "Failed",
                     !.worker_id = None,
                     !.expires_at = None,
                     !.current_try = k + 1,
                     !.run_info = Append(@, RunRecord(FALSE, info))]
    ELSE [row EXCEPT !.run_at = t + d,
                     !.current_try = k + 1,
                     !.worker_id = None,
                     !.started_at = None,
                     !.expires_at = None,
                     !.run_info = Append(@, RunRecord(FALSE, info))]

(* Heartbeat(job_id, worker_id, now, increment): the expiry is moved to    *)
(* now + increment and never back.                                         *)
HeartbeatRow(row, t) ==
    [row EXCEPT !.expires_at =
        IF @ = None THEN Some(t + row.heartbeat_increment)
        ELSE Some(Max(Get(@), t + row.heartbeat_increment))]

(* Checkpoint(job_id, worker_id, new_payload): overwrite the checkpointed  *)
(* payload and extend the expiry like a heartbeat.                         *)
CheckpointRow(row, new_payload, t) ==
    [HeartbeatRow(row, t) EXCEPT !.checkpointed_payload = Some(new_payload)]

(* The result a store operation gives its caller: Ok(new expiry) or Err    *)
(* (worker mismatch).                                                      *)
Ok(t) == <<TRUE, t>>
Err == <<FALSE, 0>>

(* Complete that does not look at the worker. *)
CompleteAnyWorker(j, w, info) ==
    IF jobs[j].status = "active"
    THEN [jobs EXCEPT ![j] = CompleteRow(@, info)]
    ELSE jobs

(* A report from a worker that is not the job's owner is a no-op. *)
Complete(j, w, info) ==
    IF OwnedBy(jobs[j], w)
    THEN [jobs EXCEPT ![j] = CompleteRow(@, info)]
    ELSE jobs

Fail(j, w, info, d) ==
    IF OwnedBy(jobs[j], w)
    THEN [jobs EXCEPT ![j] = FailRow(@, info, now, d)]
    ELSE jobs

(* The sweep's condition with expires_at <= now. *)
ExpiredAtDeadline(j) ==
    /\ JobState(j) = "Running"
    /\ jobs[j].expires_at # None
    /\ Get(jobs[j].expires_at) <= now

(* state = Running AND expires_at < now *)
Expired(j) ==
    /\ JobState(j) = "Running"
    /\ jobs[j].expires_at # None
    /\ Get(jobs[j].expires_at) < now

----------------------------------------------------------------------------
(* The claim: WorkerInternal::run_ready_jobs.                              *)

(* The query without its job_type condition. *)
MatchingAnyType(w) ==
    {j \in JobIds : Active(j) /\ jobs[j].run_at <= now}

(* The query without its run_at condition. *)
MatchingAnyTime(w) ==
    {j \in JobIds : Active(j) /\ jobs[j].job_type \in worker[w].job_list}

(* WHERE job_type in rarray($job_types) AND run_at <= $now *)
Matching(w) ==
    {j \in JobIds : /\ Active(j)
                    /\ jobs[j].job_type \in worker[w].job_list
                    /\ jobs[j].run_at <= now}

(* ORDER BY run_at, priority DESC: the two sort keys exchanged. *)
RowBeforeByRunAt(a, b) ==
    \/ jobs[a].run_at < jobs[b].run_at
    \/ /\ jobs[a].run_at = jobs[b].run_at
       /\ jobs[a].priority > jobs[b].priority

(* ORDER BY priority DESC, run_at: a row that must come before another. *)
RowBefore(a, b) ==
    \/ jobs[a].priority > jobs[b].priority
    \/ /\ jobs[a].priority = jobs[b].priority
       /\ jobs[a].run_at < jobs[b].run_at

Perms(S) ==
    {s \in [1..Cardinality(S) -> S] : \A i, k \in DOMAIN s : i # k => s[i] # s[k]}

(* The results the query may give: rows that tie may come in any order. *)
SelectReady(w) ==
    {s \in Perms(Matching(w)) :
        \A i, k \in DOMAIN s : i < k => ~RowBefore(s[k], s[i])}

(* LIMIT $limit *)
Limit(s, n) == SubSeq(s, 1, Min(n, Len(s)))

(* job_defs.get(job_type).map(|j| j.weight).unwrap_or(1) *)
Weight(job_type) ==
    IF job_type \in DOMAIN registry THEN registry[job_type] ELSE 1

(* The loop over the rows: break at the first row that does not fit; the   *)
(* local running_count is the value loaded before the transaction until    *)
(* the first fetch_add, and the counter's own value after it.              *)
RECURSIVE TakeJobs(_, _, _, _)
TakeJobs(w, rows, running_count, live) ==
    IF rows = <<>> THEN <<>>
    ELSE LET weight == Weight(jobs[Head(rows)].job_type) IN
         IF (running_count + weight) % U16 > worker[w].max_concurrency
         THEN <<>>
         ELSE <<Head(rows)>> \o
              TakeJobs(w, Tail(rows), (live + weight) % U16, (live + weight) % U16)

RECURSIVE SumWeights(_)
SumWeights(batch) ==
    IF batch = <<>> THEN 0
    ELSE Weight(jobs[Head(batch)].job_type) + SumWeights(Tail(batch))

Range(s) == {s[i] : i \in DOMAIN s}

(* The UPDATE without its expires_at column. *)
SetRunningNoExpiry(row, w) ==
    [row EXCEPT !.worker_id = Some(w), !.started_at = Some(now)]

(* UPDATE active_jobs SET worker_id, started_at, expires_at WHERE job_id *)
SetRunning(row, w) ==
    [row EXCEPT !.worker_id = Some(w),
                !.started_at = Some(now),
                !.expires_at = Some(now + row.default_timeout)]

(* The payload column alone. *)
SubmittedPayload(row) == row.payload

(* COALESCE(checkpointed_payload, payload) as payload *)
ClaimedPayload(row) ==
    IF row.checkpointed_payload # None THEN Get(row.checkpointed_payload)
    ELSE row.payload

(* The Job handed to the runner, and what its two tasks hold: expires is   *)
(* the shared AtomicI64; hb and call are the results of a heartbeat the    *)
(* auto-heartbeat task, or the job function, has got from the store and    *)
(* not yet acted upon; finished is what is_done() reports; done is the     *)
(* runner's done channel, resolved when the Job is dropped.                *)
JobHandle(w, j) ==
    [worker |-> w, job_id |-> j, current_try |-> jobs[j].current_try,
     payload |-> ClaimedPayload(jobs[j]),
     expires |-> now + jobs[j].default_timeout,
     hb |-> None, call |-> None, finished |-> FALSE,
     done |-> FALSE]

----------------------------------------------------------------------------
(* Initial states.                                                         *)

(* Queue::new: the close signal has not been sent, the writer thread runs  *)
(* and close() has not been called (wait: where its call stands; deadline: *)
(* when its timeout elapses; changed: worker_count_rx has a value it has   *)
(* not seen; res: what it returned; zero_at: when the worker count last    *)
(* became 0 after the close signal, kept for the properties only, as are   *)
(* sends, the number of times the close signal was sent, closes, the       *)
(* number of Close operations sent to the writer, and calls, the number of *)
(* close() calls that found the tasks taken; dropped: the Queue was        *)
(* dropped).                                                               *)
OpenTasks ==
    [close |-> FALSE, db_write_worker |-> TRUE, wait |-> "none",
     deadline |-> 0, changed |-> FALSE, res |-> None, zero_at |-> None,
     sends |-> 0, closes |-> 0, calls |-> 0, dropped |-> FALSE]

(* The queue is open and the workers of `built` (worker id -> the        *)
(* settings given to its WorkerBuilder) are built from the registry `reg`. *)
Built(reg, built) ==
    /\ now = 0
    /\ jobs = <<>>
    /\ registry = reg
    /\ worker = [w \in DOMAIN built |->
                   BuildWorker(reg, built[w].jobs, built[w].min, built[w].max)]
    /\ count = [w \in DOMAIN built |-> 0]
    /\ pc = [w \in DOMAIN built |-> "loop"]
    /\ rc = [w \in DOMAIN built |-> 0]
    /\ ready_jobs = [w \in DOMAIN built |-> <<>>]
    /\ runners = EmptyBag
    /\ builders = built
    /\ registered = DOMAIN built
    /\ notify_task_ready = [w \in DOMAIN built |-> FALSE]
    /\ job_finished = [w \in DOMAIN built |-> FALSE]
    /\ tasks = OpenTasks
    /\ last_add = None
    /\ close_tx = [w \in DOMAIN built |-> FALSE]

Builder(job_types, min_concurrency, max_concurrency) ==
    [jobs |-> job_types, min |-> min_concurrency, max |-> max_concurrency]

(* Three job types: a of weight 1, b of weight 2, and c, which no worker   *)
(* accepts. *)
SmallRegistry == [t \in {"a", "b", "c"} |-> IF t = "b" THEN 2 ELSE 1]

(* The registry with the type p, whose function uses the job handle, the   *)
(* one with the type s, whose function sleeps past its timeout, and the    *)
(* one with the type e, whose function finishes its job explicitly.        *)
HandleRegistry == [t \in {"p"} |-> 1]
SleepRegistry == [t \in {"s"} |-> 1]
ExplicitRegistry == [t \in {"e"} |-> 1]

(* One worker that takes a and b with min_concurrency(2) and               *)
(* max_concurrency(3).                                                     *)
InitWeighted ==
    Built(SmallRegistry, [w \in {1} |-> Builder({"a", "b"}, Some(2), Some(3))])

(* Two workers that take a with the defaults. *)
InitTwoWorkers ==
    Built(SmallRegistry, [w \in {1, 2} |-> Builder({"a"}, None, None)])

(* One worker that takes p with the defaults. *)
InitHandle ==
    Built(HandleRegistry, [w \in {1} |-> Builder({"p"}, None, None)])

(* One worker that takes s with min_concurrency(2) and max_concurrency(2). *)
InitSleep ==
    Built(SleepRegistry, [w \in {1} |-> Builder({"s"}, Some(2), Some(2))])

(* A worker at the top of the u16 range: one job type of weight 40000, a   *)
(* worker built with min_concurrency(1) and max_concurrency(65535).        *)
WideRegistry == [t \in {"h"} |-> 40000]

InitWide ==
    Built(WideRegistry, [w \in {1} |-> Builder({"h"}, Some(1), Some(65535))])

(* One worker that takes e with min_concurrency(2) and max_concurrency(2). *)
InitExplicit ==
    Built(ExplicitRegistry, [w \in {1} |-> Builder({"e"}, Some(2), Some(2))])

Init ==
    \/ InitWeighted
    \/ InitTwoWorkers
    \/ InitHandle
    \/ InitSleep
    \/ InitExplicit
    \/ InitWide

----------------------------------------------------------------------------
(* Submission and time.                                                    *)

(* What is submitted, among the registered job types: retries and timeout *)
(* go with the type (a: one retry, 1 s; b: no retry, 2 s; c and h: no      *)
(* retry, 1 s; p: two retries, 1 s, heartbeat increment 2 s; s and e: one  *)
(* retry, 1 s; m: no retry, 1 s; n: no retry, 2 s; k: no retry, 1 s or     *)
(* 2 s, heartbeat increment 1 s, 2 s or 3 s).  run_at: None means now; a   *)
(* job of type a is due at second 0 (now or in the past) or in the future, *)
(* a job of type m now or in the future.                                   *)
NewJobs ==
    {row \in { NewJobRow("a", 1, Some(0), 1, 1, 0),
               NewJobRow("a", 1, Some(now + 1), 1, 1, 0),
               NewJobRow("a", 2, None, 1, 1, 0),
               NewJobRow("b", 1, None, 0, 2, 0),
               NewJobRow("c", 1, None, 0, 1, 0),
               NewJobRow("h", 1, None, 0, 1, 0),
               NewJobRow("p", 1, None, 2, 1, 2),
               NewJobRow("s", 1, None, 1, 1, 0),
               NewJobRow("e", 1, None, 1, 1, 0),
               NewJobRow("m", 1, None, 0, 1, 0),
               NewJobRow("m", 1, Some(now + 1), 0, 1, 0),
               NewJobRow("n", 1, None, 0, 2, 0),
               NewJobRow("k", 1, None, 0, 1, 1),
               NewJobRow("k", 1, None, 0, 1, 2),
               NewJobRow("k", 1, None, 0, 2, 3),
               NewJobRow("k", 1, None, 0, 2, 1) } :
        row.job_type \in DOMAIN registry}

AddJob ==
    /\ Len(jobs) < MaxJobs
    /\ \E row \in NewJobs :
          /\ row.job_type \in {"p", "s", "e"} =>
                Cardinality({j \in JobIds : jobs[j].job_type \in {"p", "s", "e"}})
                   < MaxLifeJobs
          /\ jobs' = Append(jobs, row)
    /\ UNCHANGED <<now, registry, worker, count, pc, rc, ready_jobs, runners, qvars>>

Tick ==
    /\ now < MaxTime
    /\ now' = now + 1
    /\ UNCHANGED <<registry, worker, jobs, count, pc, rc, ready_jobs, runners, qvars>>

----------------------------------------------------------------------------
(* The dispatcher of a worker: WorkerInternal::run.                        *)

(* The top of the loop, up to the point where run_ready_jobs hands its     *)
(* closure to the writer: the counter is loaded and a claim is made only   *)
(* below min_concurrency.                                                  *)
LoadCount(w) ==
    /\ pc[w] = "loop"
    /\ count[w] < worker[w].min_concurrency
    /\ rc' = [rc EXCEPT ![w] = count[w]]
    /\ pc' = [pc EXCEPT ![w] = "claim"]
    /\ UNCHANGED <<now, registry, worker, jobs, count, ready_jobs, runners, qvars>>

(* The transaction of run_ready_jobs. *)
ClaimJobs(w) ==
    /\ pc[w] = "claim"
    /\ LET max_jobs == (worker[w].max_concurrency - rc[w]) % U16 IN
       \E rows \in SelectReady(w) :
          LET batch == TakeJobs(w, Limit(rows, max_jobs), rc[w], count[w]) IN
          /\ jobs' = [j \in DOMAIN jobs |->
                        IF j \in Range(batch) THEN SetRunning(jobs[j], w)
                        ELSE jobs[j]]
          /\ count' = [count EXCEPT ![w] = (@ + SumWeights(batch)) % U16]
          /\ ready_jobs' = [ready_jobs EXCEPT
                              ![w] = [i \in DOMAIN batch |-> JobHandle(w, batch[i])]]
    /\ pc' = [pc EXCEPT ![w] = "start"]
    /\ UNCHANGED <<now, registry, worker, rc, runners, qvars>>

(* The transaction of run_ready_jobs ends with a store error: reading a    *)
(* row (job?), marking it (set_running.execute(..)?) or tx.commit()?       *)
(* fails after k jobs went through the loop.  The closure returns the      *)
(* error, the transaction is dropped and rolls back, the Jobs built so far *)
(* are dropped with it; each fetch_add made in the loop stays.  run drops  *)
(* the result of run_ready_jobs and goes on to its select!.                *)
ClaimFails(w) ==
    /\ pc[w] = "claim"
    /\ LET max_jobs == (worker[w].max_concurrency - rc[w]) % U16 IN
       \E rows \in SelectReady(w) :
          LET batch == TakeJobs(w, Limit(rows, max_jobs), rc[w], count[w]) IN
          \E k \in 0..Len(batch) :
             count' = [count EXCEPT ![w] = (@ + SumWeights(SubSeq(batch, 1, k))) % U16]
    /\ rc' = [rc EXCEPT ![w] = 0]
    /\ pc' = [pc EXCEPT ![w] = "loop"]
    /\ UNCHANGED <<now, registry, worker, jobs, ready_jobs, runners, qvars>>

(* for job in ready_jobs { run_job(job) }: the runner tasks are spawned. *)
RunJobs(w) ==
    /\ pc[w] = "start"
    /\ runners' = runners (+)
          [h \in Range(ready_jobs[w]) |->
              Cardinality({i \in DOMAIN ready_jobs[w] : ready_jobs[w][i] = h})]
    /\ ready_jobs' = [ready_jobs EXCEPT ![w] = <<>>]
    /\ rc' = [rc EXCEPT ![w] = 0]
    /\ pc' = [pc EXCEPT ![w] = "loop"]
    /\ UNCHANGED <<now, registry, worker, jobs, count, qvars>>

----------------------------------------------------------------------------
(* The runner of one job.                                                  *)

(* What the registered job functions do.  The function of p uses its job   *)
(* handle for heartbeats and checkpoints, may panic, and its JobDef has    *)
(* autoheartbeat set; the function of e finishes its job explicitly, with  *)
(* job.complete or job.fail, before it returns; the function of s sleeps   *)
(* until its attempt has been failed by expiry and then returns Ok; the    *)
(* functions of m and n always return Ok; the JobDef of k has              *)
(* autoheartbeat set and its function returns Ok without a use of its      *)
(* handle; the others return Ok or an error.                               *)
Autoheartbeat(job_type) == job_type \in {"p", "k"}
UsesHandle(job_type) == job_type = "p"
FinishesExplicitly(job_type) == job_type = "e"
Sleeps(job_type) == job_type = "s"
Succeeds(job_type) == job_type \in {"m", "n", "k"}

(* What a job function may end with: a return value, a panic raised while  *)
(* its future runs (with a &str, a String or another value), or a panic    *)
(* raised by the call that should build the future.                        *)
Results ==
    {"ok", "err", "panic_str", "panic_string", "panic_any", "panic_call"}

ResultsOf(job_type) ==
    IF UsesHandle(job_type) THEN Results
    ELSE IF Sleeps(job_type) \/ Succeeds(job_type) THEN {"ok"}
    ELSE {"ok", "err"}

PanicValue(result) ==
    CASE result = "panic_str"    -> [type |-> "&str", value |-> "boom"]
      [] result = "panic_string" -> [type |-> "String", value |-> "bang"]
      [] OTHER                   -> [type |-> "i32", value |-> "7"]

(* e.downcast_ref::<&str>(), then ::<String>(), otherwise "Panic". *)
PanicMessage(e) ==
    IF e.type = "&str" THEN e.value
    ELSE IF e.type = "String" THEN e.value
    ELSE "Panic"

(* The payloads a checkpoint may write. *)
CheckpointPayloads == {1, 2}

(* One runner's record is replaced by another. *)
Replace(h, h2) == (runners (-) SetToBag({h})) (+) SetToBag({h2})

(* send_heartbeat(job_id, worker_id, heartbeat_increment): the rows after  *)
(* it and the result it returns.                                           *)
SendHeartbeat(j, w) ==
    IF OwnedBy(jobs[j], w)
    THEN LET row == HeartbeatRow(jobs[j], now)
         IN  <<[jobs EXCEPT ![j] = row], Ok(Get(row.expires_at))>>
    ELSE <<jobs, Err>>

SendCheckpoint(j, w, new_payload) ==
    IF OwnedBy(jobs[j], w)
    THEN LET row == CheckpointRow(jobs[j], new_payload, now)
         IN  <<[jobs EXCEPT ![j] = row], Ok(Get(row.expires_at))>>
    ELSE <<jobs, Err>>

(* A store that takes the value whatever the cell holds. *)
StoreExpires(h, res) == IF res[1] THEN res[2] ELSE h.expires

(* wait_for_next_autoheartbeat has elapsed: min(increment, 30) / 2 before  *)
(* the expiry the runner knows of.                                         *)
HeartbeatDue(h) ==
    now >= h.expires - (Min(jobs[h.job_id].heartbeat_increment, 30) \div 2)

(* The auto-heartbeat task: the timer branch of its select! was taken and  *)
(* send_heartbeat has returned.  The select! is not biased: when the timer *)
(* is over, its branch can be taken although done has resolved.            *)
AutoHeartbeat(h) ==
    /\ h \in BagToSet(runners)
    /\ h.hb = None
    /\ Autoheartbeat(jobs[h.job_id].job_type)
    /\ jobs[h.job_id].heartbeat_increment > 0
    /\ HeartbeatDue(h)
    /\ LET sent == SendHeartbeat(h.job_id, h.worker) IN
       /\ jobs' = sent[1]
       /\ runners' = Replace(h, [h EXCEPT !.hb = sent[2]])
    /\ UNCHANGED <<now, registry, worker, count, pc, rc, ready_jobs, qvars>>

(* if let Ok(new_time) = new_time { expires.store(new_time) } *)
AutoHeartbeatStore(h) ==
    /\ h \in BagToSet(runners)
    /\ h.hb # None
    /\ runners' = Replace(h, [h EXCEPT !.hb = None,
                                       !.expires = StoreExpires(h, h.hb)])
    /\ UNCHANGED <<now, registry, worker, jobs, count, pc, rc, ready_jobs, qvars>>

(* The job function calls job.heartbeat() or job.checkpoint(payload): the  *)
(* store operation has returned.                                           *)
JobCall(h, op) ==
    /\ h \in BagToSet(runners)
    /\ ~h.done
    /\ h.call = None
    /\ UsesHandle(jobs[h.job_id].job_type)
    /\ LET sent == IF op = 0 THEN SendHeartbeat(h.job_id, h.worker)
                   ELSE SendCheckpoint(h.job_id, h.worker, op)
       IN  /\ jobs' = sent[1]
           /\ runners' = Replace(h, [h EXCEPT !.call = sent[2]])
    /\ UNCHANGED <<now, registry, worker, count, pc, rc, ready_jobs, qvars>>

(* ... and the handle keeps the new expiry. *)
JobCallStore(h) ==
    /\ h \in BagToSet(runners)
    /\ h.call # None
    /\ runners' = Replace(h, [h EXCEPT !.call = None,
                                       !.expires = StoreExpires(h, h.call)])
    /\ UNCHANGED <<now, registry, worker, jobs, count, pc, rc, ready_jobs, qvars>>

(* The job function calls job.complete(info) or job.fail(info). *)
ExplicitFinish(h, success) ==
    /\ h \in BagToSet(runners)
    /\ ~h.done
    /\ ~h.finished
    /\ FinishesExplicitly(jobs[h.job_id].job_type)
    /\ \/ /\ success
          /\ jobs' = Complete(h.job_id, h.worker, "explicit succeed")
       \/ /\ ~success
          /\ \E d \in BackoffDelays(jobs[h.job_id].current_try) :
                jobs' = Fail(h.job_id, h.worker, "explicit fail", d)
    /\ runners' = Replace(h, [h EXCEPT !.finished = TRUE])
    /\ UNCHANGED <<now, registry, worker, count, pc, rc, ready_jobs, qvars>>

(* A wrapper that does not ask whether the job was finished. *)
NeverFinished(h) == FALSE

(* let explicitly_finished = job.is_done().await *)
ExplicitlyFinished(h) == h.finished

(* The wrapper JobDef::new puts around the job function.  The call that    *)
(* builds the future is made before catch_unwind takes the future, so a    *)
(* panic in it unwinds the task with no report; otherwise, unless the job  *)
(* was explicitly finished, Ok(info) gives Complete, an error or a panic   *)
(* gives Fail.  The Job is dropped afterwards, which resolves done.        *)
JobReturns(h, result) ==
    /\ h \in BagToSet(runners)
    /\ ~h.done
    /\ h.call = None
    /\ result \in ResultsOf(jobs[h.job_id].job_type)
    /\ FinishesExplicitly(jobs[h.job_id].job_type) => h.finished
    /\ Sleeps(jobs[h.job_id].job_type) =>
          Len(jobs[h.job_id].run_info) > h.current_try
    /\ \/ /\ result = "panic_call" \/ ExplicitlyFinished(h)
          /\ jobs' = jobs
       \/ /\ result = "ok" /\ ~ExplicitlyFinished(h)
          /\ jobs' = Complete(h.job_id, h.worker, "ok")
       \/ /\ result = "err" /\ ~ExplicitlyFinished(h)
          /\ \E d \in BackoffDelays(jobs[h.job_id].current_try) :
                jobs' = Fail(h.job_id, h.worker, "err", d)
       \/ /\ result \in {"panic_str", "panic_string", "panic_any"}
          /\ ~ExplicitlyFinished(h)
          /\ \E d \in BackoffDelays(jobs[h.job_id].current_try) :
                jobs' = Fail(h.job_id, h.worker, PanicMessage(PanicValue(result)), d)
    /\ runners' = Replace(h, [h EXCEPT !.done = TRUE])
    /\ UNCHANGED <<now, registry, worker, count, pc, rc, ready_jobs, qvars>>

(* The task run_job spawns, once done has resolved: the job's weight is    *)
(* taken off the worker's counter.                                         *)
RunnerDone(h) ==
    /\ h \in BagToSet(runners)
    /\ h.done
    /\ h.hb = None
    /\ runners' = runners (-) SetToBag({h})
    /\ count' = [count EXCEPT ![h.worker] =
                    (@ + U16 - Weight(jobs[h.job_id].job_type)) % U16]
    /\ UNCHANGED <<now, registry, worker, jobs, pc, rc, ready_jobs, qvars>>

(* ExpireSweep(now): every Running row past its expires_at is failed with  *)
(* "Job expired" through the retry rule.                                   *)
ExpireSweep ==
    LET expired == {j \in JobIds : Expired(j)} IN
    /\ expired # {}
    /\ \E ds \in [expired -> 1..(2 * BackoffBase(MaxJobs))] :
          /\ \A j \in expired : ds[j] \in BackoffDelays(jobs[j].current_try)
          /\ jobs' = [j \in DOMAIN jobs |->
                        IF j \in expired
                        THEN FailRow(jobs[j], "Job expired", now, ds[j])
                        ELSE jobs[j]]
    /\ UNCHANGED <<now, registry, worker, count, pc, rc, ready_jobs, runners, qvars>>

----------------------------------------------------------------------------

Next ==
    \/ AddJob
    \/ Tick
    \/ \E w \in Workers : LoadCount(w)
    \/ \E w \in Workers : ClaimJobs(w)
    \/ \E w \in Workers : RunJobs(w)
    \/ \E h \in BagToSet(runners) : AutoHeartbeat(h)
    \/ \E h \in BagToSet(runners) : AutoHeartbeatStore(h)
    \/ \E h \in BagToSet(runners), op \in {0} \cup CheckpointPayloads : JobCall(h, op)
    \/ \E h \in BagToSet(runners) : JobCallStore(h)
    \/ \E h \in BagToSet(runners), success \in BOOLEAN : ExplicitFinish(h, success)
    \/ \E h \in BagToSet(runners), result \in Results : JobReturns(h, result)
    \/ \E h \in BagToSet(runners) : RunnerDone(h)
    \/ ExpireSweep

Spec == Init /\ [][Next]_vars

(* The worker at the top of the u16 range alone. *)
(* The auto-heartbeat with timers that are served in time: one worker     *)
(* that takes k with the defaults.                                         *)
BeatRegistry == [t \in {"k"} |-> 1]

InitBeat ==
    Built(BeatRegistry, [w \in {1} |-> Builder({"k"}, None, None)])

(* The second at which the timer of wait_for_next_autoheartbeat is over.   *)
NextHeartbeatTime(h) ==
    h.expires - (Min(jobs[h.job_id].heartbeat_increment, 30) \div 2)

(* A second passes.  A timer that is over is served, and the heartbeat it  *)
(* sends has returned, in less than a second: the clock does not go past   *)
(* the second after the one in which the timer was over.  The same holds   *)
(* for the jobs of a claim whose runners are about to be spawned.          *)
TickInTime ==
    /\ \A h \in BagToSet(runners) \cup UNION {Range(ready_jobs[w]) : w \in Workers} :
          (/\ ~h.done
           /\ Autoheartbeat(jobs[h.job_id].job_type)
           /\ jobs[h.job_id].heartbeat_increment > 0)
          => (h.hb = None /\ now <= NextHeartbeatTime(h))
    /\ Tick

NextBeat ==
    \/ AddJob
    \/ TickInTime
    \/ \E w \in Workers : LoadCount(w)
    \/ \E w \in Workers : ClaimJobs(w)
    \/ \E w \in Workers : RunJobs(w)
    \/ \E h \in BagToSet(runners) : AutoHeartbeat(h)
    \/ \E h \in BagToSet(runners) : AutoHeartbeatStore(h)
    \/ \E h \in BagToSet(runners), result \in Results : JobReturns(h, result)
    \/ \E h \in BagToSet(runners) : RunnerDone(h)
    \/ ExpireSweep

SpecBeat == InitBeat /\ [][NextBeat]_vars

(* The claim with a store that may fail: one worker of SmallRegistry. *)
NextFail ==
    \/ AddJob
    \/ Tick
    \/ \E w \in Workers : LoadCount(w)
    \/ \E w \in Workers : ClaimJobs(w)
    \/ \E w \in Workers : ClaimFails(w)
    \/ \E w \in Workers : RunJobs(w)
    \/ \E h \in BagToSet(runners), result \in Results : JobReturns(h, result)
    \/ \E h \in BagToSet(runners) : RunnerDone(h)

SpecFail == InitWeighted /\ [][NextFail]_vars

SpecWide == InitWide /\ [][Next]_vars

----------------------------------------------------------------------------
(* Setting up: the registry and the workers' builders.                     *)

(* The names and weights of the job definitions that are registered. *)
JobDefs == [name : {"a", "b", "c"}, weight : {1, 2}]

(* JobRegistry::new(jobs): the definitions are collected into the map by   *)
(* name; of two with one name the later one stays.                         *)
RECURSIVE JobRegistryNew(_)
JobRegistryNew(job_defs) ==
    IF job_defs = <<>> THEN <<>>
    ELSE LET n == Len(job_defs)
             d == job_defs[n]
             before == JobRegistryNew(SubSeq(job_defs, 1, n - 1))
         IN  (d.name :> d.weight) @@ before

(* An add that takes the new definition in place of the old one. *)
AddOrReplace(job) ==
    /\ DOMAIN worker = {}
    /\ registry' = (job.name :> job.weight) @@ registry
    /\ last_add' = [job |-> job, result |-> "ok"]
    /\ UNCHANGED <<now, worker, jobs, count, pc, rc, ready_jobs, runners,
                   builders, registered, notify_task_ready, job_finished, tasks,
                   close_tx>>

(* JobRegistry::add(&job): entry(name).and_modify(panic).or_insert(job).   *)
(* The registry is filled before the workers are built from it.            *)
Add(job) ==
    /\ DOMAIN worker = {}
    /\ IF job.name \in DOMAIN registry
       THEN /\ registry' = registry
            /\ last_add' = [job |-> job, result |-> "panic"]
       ELSE /\ registry' = registry @@ (job.name :> job.weight)
            /\ last_add' = [job |-> job, result |-> "ok"]
    /\ UNCHANGED <<now, worker, jobs, count, pc, rc, ready_jobs, runners,
                   builders, registered, notify_task_ready, job_finished, tasks,
                   close_tx>>

(* What a WorkerBuilder can be given: job_types asserts that every type is *)
(* in the registry, min_concurrency and max_concurrency that the number is *)
(* positive.                                                               *)
WorkerBuilders(job_types, numbers) ==
    {b \in [jobs : SUBSET job_types,
            min : {None} \cup {Some(n) : n \in numbers},
            max : {None} \cup {Some(n) : n \in numbers}] :
        /\ b.jobs \subseteq DOMAIN registry
        /\ b.min # None => Get(b.min) > 0
        /\ b.max # None => Get(b.max) > 0}

(* WorkerBuilder::build, up to the spawn of WorkerInternal::run: the       *)
(* worker list gives the worker the next id, takes it in and sends the new *)
(* worker count. Workers are built before close() is called.               *)
Build(w, b) ==
    /\ w = Cardinality(DOMAIN worker) + 1
    /\ ~tasks.close
    /\ worker' = worker @@ (w :> BuildWorker(registry, b.jobs, b.min, b.max))
    /\ builders' = builders @@ (w :> b)
    /\ registered' = registered \cup {w}
    /\ count' = count @@ (w :> 0)
    /\ pc' = pc @@ (w :> "loop")
    /\ rc' = rc @@ (w :> 0)
    /\ ready_jobs' = ready_jobs @@ (w :> <<>>)
    /\ notify_task_ready' = notify_task_ready @@ (w :> FALSE)
    /\ job_finished' = job_finished @@ (w :> FALSE)
    /\ close_tx' = close_tx @@ (w :> FALSE)
    /\ tasks' = [tasks EXCEPT !.changed = TRUE]
    /\ UNCHANGED <<now, registry, jobs, runners, last_add>>

(* A queue without workers and a registry made of the list job_defs. *)
OpenedOn(job_defs, rows) ==
    /\ now = 0
    /\ jobs = rows
    /\ registry = JobRegistryNew(job_defs)
    /\ worker = <<>>
    /\ count = <<>>
    /\ pc = <<>>
    /\ rc = <<>>
    /\ ready_jobs = <<>>
    /\ runners = EmptyBag
    /\ builders = <<>>
    /\ registered = {}
    /\ notify_task_ready = <<>>
    /\ job_finished = <<>>
    /\ tasks = OpenTasks
    /\ last_add = None
    /\ close_tx = <<>>

Opened(job_defs) == OpenedOn(job_defs, <<>>)

InitSetup ==
    \E job_defs \in {<<>>,
                     <<[name |-> "a", weight |-> 1]>>,
                     <<[name |-> "a", weight |-> 1], [name |-> "a", weight |-> 2]>>} :
        Opened(job_defs)

NextSetup ==
    \/ \E job \in JobDefs : Add(job)
    \/ \E b \in WorkerBuilders({"a", "b", "c"}, {1, 3, 5}) : Build(1, b)

SpecSetup == InitSetup /\ [][NextSetup]_vars

----------------------------------------------------------------------------
(* The queue with its signals: submission, the pending-jobs monitor, the   *)
(* dispatcher's select!, the end of a runner, and close().                 *)

(* The monitor's notify-ready: the workers in the worker list that accept  *)
(* the type of one of the jobs `ready` get a permit.                       *)
NotifyReady(ready) ==
    [w \in DOMAIN notify_task_ready |->
        \/ notify_task_ready[w]
        \/ /\ w \in registered
           /\ \E row \in ready : row.job_type \in worker[w].job_list]

(* add_job: the writer inserts the row; the monitor wakes the workers when *)
(* the job is ready at once.                                               *)
Submit ==
    /\ tasks.db_write_worker
    /\ Len(jobs) < MaxJobs
    /\ \E row \in NewJobs :
          /\ jobs' = Append(jobs, row)
          /\ notify_task_ready' =
                NotifyReady(IF row.run_at <= now THEN {row} ELSE {})
    /\ UNCHANGED <<now, registry, worker, count, pc, rc, ready_jobs, runners,
                   builders, registered, job_finished, tasks, last_add, close_tx>>

(* A second passes; the monitor wakes the workers for the jobs whose       *)
(* run_at is reached.                                                      *)
Advance ==
    /\ now < MaxTime
    /\ now' = now + 1
    /\ notify_task_ready' =
          NotifyReady({jobs[j] : j \in {i \in JobIds : /\ Active(i)
                                                      /\ jobs[i].run_at = now + 1}})
    /\ UNCHANGED <<registry, worker, jobs, count, pc, rc, ready_jobs, runners,
                   builders, registered, job_finished, tasks, last_add, close_tx>>

(* Worker::unregister (and the drop of a Worker): the worker's own close   *)
(* signal is sent to its dispatcher.                                       *)
Unregister(w) ==
    /\ ~close_tx[w]
    /\ close_tx' = [close_tx EXCEPT ![w] = TRUE]
    /\ UNCHANGED <<now, registry, worker, jobs, count, pc, rc, ready_jobs, runners,
                   builders, registered, notify_task_ready, job_finished, tasks,
                   last_add>>

(* One of the two close signals the select! listens to has been sent:      *)
(* close_rx (the worker's own) or global_close_rx (the queue's).           *)
CloseSent(w) == close_tx[w] \/ tasks.close

(* A loop that goes to its select! without a look at the store. *)
RunLoopWaits(w) ==
    /\ pc[w] = "loop"
    /\ pc' = [pc EXCEPT ![w] = "select_grab"]
    /\ UNCHANGED <<now, registry, worker, jobs, count, rc, ready_jobs, runners, qvars>>

(* A loop that claims whatever the counter says. *)
RunLoopAlways(w) ==
    /\ pc[w] = "loop"
    /\ rc' = [rc EXCEPT ![w] = count[w]]
    /\ pc' = [pc EXCEPT ![w] = "claim"]
    /\ UNCHANGED <<now, registry, worker, jobs, count, ready_jobs, runners, qvars>>

(* The top of the loop of WorkerInternal::run: below min_concurrency the   *)
(* dispatcher goes to run_ready_jobs, otherwise to the select! with        *)
(* grab_new_jobs false (pc "select"; "select_grab" is the select! with     *)
(* grab_new_jobs true).                                                    *)
RunLoop(w) ==
    /\ pc[w] = "loop"
    /\ IF count[w] < worker[w].min_concurrency
       THEN /\ rc' = [rc EXCEPT ![w] = count[w]]
            /\ pc' = [pc EXCEPT ![w] = "claim"]
       ELSE /\ rc' = rc
            /\ pc' = [pc EXCEPT ![w] = "select"]
    /\ UNCHANGED <<now, registry, worker, jobs, count, ready_jobs, runners, qvars>>

(* run_ready_jobs: the claim goes through the writer; without the writer   *)
(* it fails, and run ignores the error.                                    *)
RunReadyJobs(w) ==
    IF tasks.db_write_worker
    THEN ClaimJobs(w)
    ELSE /\ pc[w] = "claim"
         /\ pc' = [pc EXCEPT ![w] = "start"]
         /\ UNCHANGED <<now, registry, worker, jobs, count, rc, ready_jobs,
                        runners, qvars>>

(* The runners of the claimed jobs are spawned; then the counter is loaded *)
(* again and grab_new_jobs is set.                                         *)
StartJobs(w) ==
    /\ pc[w] = "start"
    /\ runners' = runners (+)
          [h \in Range(ready_jobs[w]) |->
              Cardinality({i \in DOMAIN ready_jobs[w] : ready_jobs[w][i] = h})]
    /\ ready_jobs' = [ready_jobs EXCEPT ![w] = <<>>]
    /\ rc' = [rc EXCEPT ![w] = 0]
    /\ pc' = [pc EXCEPT ![w] = IF count[w] < worker[w].min_concurrency
                               THEN "select_grab" ELSE "select"]
    /\ UNCHANGED <<now, registry, worker, jobs, count, qvars>>

(* select! { biased; &mut close_rx => shutdown, break;                     *)
(* global_close_rx.changed() => shutdown, break; ... }: shutdown takes the *)
(* worker off the worker list, which sends the new worker count, and waits *)
(* for no runner.                                                          *)
SelectClose(w) ==
    /\ pc[w] \in {"select", "select_grab"}
    /\ CloseSent(w)
    /\ registered' = registered \ {w}
    /\ tasks' = [tasks EXCEPT !.changed = TRUE,
                              !.zero_at = IF tasks.close /\ registered \ {w} = {}
                                          THEN Some(now) ELSE @]
    /\ pc' = [pc EXCEPT ![w] = "stopped"]
    /\ UNCHANGED <<now, registry, worker, jobs, count, rc, ready_jobs, runners,
                   builders, notify_task_ready, job_finished, last_add, close_tx>>

(* A select! that takes notify-ready and goes on waiting. *)
SelectTaskReadyWaits(w) ==
    /\ pc[w] = "select_grab"
    /\ ~CloseSent(w)
    /\ notify_task_ready[w]
    /\ notify_task_ready' = [notify_task_ready EXCEPT ![w] = FALSE]
    /\ UNCHANGED <<now, registry, worker, jobs, count, pc, rc, ready_jobs, runners,
                   builders, registered, job_finished, tasks, last_add, close_tx>>

(* ... notify_task_ready.notified(), if grab_new_jobs => {} *)
SelectTaskReady(w) ==
    /\ pc[w] = "select_grab"
    /\ ~CloseSent(w)
    /\ notify_task_ready[w]
    /\ notify_task_ready' = [notify_task_ready EXCEPT ![w] = FALSE]
    /\ pc' = [pc EXCEPT ![w] = "loop"]
    /\ UNCHANGED <<now, registry, worker, jobs, count, rc, ready_jobs, runners,
                   builders, registered, job_finished, tasks, last_add, close_tx>>

(* A select! that takes job-finished and goes on waiting. *)
SelectJobFinishedWaits(w) ==
    /\ pc[w] \in {"select", "select_grab"}
    /\ ~CloseSent(w)
    /\ ~(pc[w] = "select_grab" /\ notify_task_ready[w])
    /\ job_finished[w]
    /\ job_finished' = [job_finished EXCEPT ![w] = FALSE]
    /\ UNCHANGED <<now, registry, worker, jobs, count, pc, rc, ready_jobs, runners,
                   builders, registered, notify_task_ready, tasks, last_add, close_tx>>

(* ... job_finished.notified() => {} *)
SelectJobFinished(w) ==
    /\ pc[w] \in {"select", "select_grab"}
    /\ ~CloseSent(w)
    /\ ~(pc[w] = "select_grab" /\ notify_task_ready[w])
    /\ job_finished[w]
    /\ job_finished' = [job_finished EXCEPT ![w] = FALSE]
    /\ pc' = [pc EXCEPT ![w] = "loop"]
    /\ UNCHANGED <<now, registry, worker, jobs, count, rc, ready_jobs, runners,
                   builders, registered, notify_task_ready, tasks, last_add, close_tx>>

(* The job function returns and the wrapper reports; the report goes       *)
(* through the writer and is lost without it.                              *)
Report(h, result) ==
    IF tasks.db_write_worker
    THEN JobReturns(h, result)
    ELSE /\ h \in BagToSet(runners)
         /\ ~h.done
         /\ result \in ResultsOf(jobs[h.job_id].job_type)
         /\ runners' = Replace(h, [h EXCEPT !.done = TRUE])
         /\ UNCHANGED <<now, registry, worker, jobs, count, pc, rc, ready_jobs,
                        qvars>>

(* A signal that reaches only a dispatcher that is waiting for it and      *)
(* leaves no permit otherwise.                                             *)
JobFinishedNoPermit(h) ==
    /\ h \in BagToSet(runners)
    /\ h.done
    /\ runners' = runners (-) SetToBag({h})
    /\ count' = [count EXCEPT ![h.worker] =
                    (@ + U16 - Weight(jobs[h.job_id].job_type)) % U16]
    /\ job_finished' = [job_finished EXCEPT ![h.worker] =
                           @ \/ pc[h.worker] \in {"select", "select_grab"}]
    /\ UNCHANGED <<now, registry, worker, jobs, pc, rc, ready_jobs,
                   builders, registered, notify_task_ready, tasks, last_add, close_tx>>

(* The task run_job spawns, once done has resolved: count.fetch_sub(weight) *)
(* and job_finished.notify_one().                                          *)
JobFinished(h) ==
    /\ h \in BagToSet(runners)
    /\ h.done
    /\ runners' = runners (-) SetToBag({h})
    /\ count' = [count EXCEPT ![h.worker] =
                    (@ + U16 - Weight(jobs[h.job_id].job_type)) % U16]
    /\ job_finished' = [job_finished EXCEPT ![h.worker] = TRUE]
    /\ UNCHANGED <<now, registry, worker, jobs, pc, rc, ready_jobs,
                   builders, registered, notify_task_ready, tasks, last_add, close_tx>>

(* The timeouts given to close(), in seconds. *)
CloseTimeouts == {0, 1}

(* A close() that does not look whether the tasks were taken. *)
CloseNoTake(timeout) ==
    /\ ~tasks.dropped
    /\ tasks' = IF registered = {}
                THEN [tasks EXCEPT !.close = TRUE, !.changed = FALSE,
                                   !.sends = @ + 1,
                                   !.wait = "closing", !.res = Some("Ok")]
                ELSE [tasks EXCEPT !.close = TRUE, !.changed = FALSE,
                                   !.sends = @ + 1,
                                   !.wait = "waiting", !.deadline = now + timeout]
    /\ UNCHANGED <<now, registry, worker, jobs, count, pc, rc, ready_jobs, runners,
                   builders, registered, notify_task_ready, job_finished, last_add, close_tx>>

(* Queue::close(timeout), up to the first check of wait_for_workers_to_stop: *)
(* the tasks are taken, the close signal is sent, and with a worker count  *)
(* of 0 the wait is over at once.                                          *)
Close(timeout) ==
    /\ tasks.wait = "none"
    /\ tasks' = IF registered = {}
                THEN [tasks EXCEPT !.close = TRUE, !.changed = FALSE,
                                   !.sends = @ + 1,
                                   !.wait = "closing", !.res = Some("Ok")]
                ELSE [tasks EXCEPT !.close = TRUE, !.changed = FALSE,
                                   !.sends = @ + 1,
                                   !.wait = "waiting", !.deadline = now + timeout]
    /\ UNCHANGED <<now, registry, worker, jobs, count, pc, rc, ready_jobs, runners,
                   builders, registered, notify_task_ready, job_finished, last_add, close_tx>>

(* select! { ... res = worker_count_rx.changed() => if count == 0 return Ok } *)
WaitChanged ==
    /\ tasks.wait = "waiting"
    /\ tasks.changed
    /\ tasks' = IF registered = {}
                THEN [tasks EXCEPT !.changed = FALSE,
                                   !.wait = "closing", !.res = Some("Ok")]
                ELSE [tasks EXCEPT !.changed = FALSE]
    /\ UNCHANGED <<now, registry, worker, jobs, count, pc, rc, ready_jobs, runners,
                   builders, registered, notify_task_ready, job_finished, last_add, close_tx>>

(* A timer that is over as soon as the wait begins. *)
WaitTimeoutAtOnce ==
    /\ tasks.wait = "waiting"
    /\ tasks' = [tasks EXCEPT !.wait = "closing", !.res = Some("Timeout")]
    /\ UNCHANGED <<now, registry, worker, jobs, count, pc, rc, ready_jobs, runners,
                   builders, registered, notify_task_ready, job_finished, last_add, close_tx>>

(* select! { _ = &mut timeout => return Err(Error::Timeout), ... }: the    *)
(* select! is not biased, so this branch can be taken whenever the sleep   *)
(* is over.                                                                *)
WaitTimeout ==
    /\ tasks.wait = "waiting"
    /\ now >= tasks.deadline
    /\ tasks' = [tasks EXCEPT !.wait = "closing", !.res = Some("Timeout")]
    /\ UNCHANGED <<now, registry, worker, jobs, count, pc, rc, ready_jobs, runners,
                   builders, registered, notify_task_ready, job_finished, last_add, close_tx>>

(* close_internal after the wait: Close is sent to the writer, its thread  *)
(* is joined, and res is returned.                                         *)
CloseReturns ==
    /\ tasks.wait = "closing"
    /\ tasks' = [tasks EXCEPT !.wait = "returned", !.db_write_worker = FALSE,
                              !.closes = @ + 1]
    /\ UNCHANGED <<now, registry, worker, jobs, count, pc, rc, ready_jobs, runners,
                   builders, registered, notify_task_ready, job_finished, last_add, close_tx>>

(* The number of close() calls made after the tasks were taken. *)
MaxCloseCalls == 2

(* Queue::close(timeout) when another call has taken the tasks:            *)
(* tasks_holder.take() gives None and the call returns Ok(()).             *)
CloseTaken(timeout) ==
    /\ tasks.wait # "none"
    /\ ~tasks.dropped
    /\ tasks.calls < MaxCloseCalls
    /\ tasks' = [tasks EXCEPT !.calls = @ + 1]
    /\ UNCHANGED <<now, registry, worker, jobs, count, pc, rc, ready_jobs, runners,
                   builders, registered, notify_task_ready, job_finished, last_add, close_tx>>

(* Duration::from_secs(60) *)
DropTimeout == 60

(* Drop for Queue: tasks that were not taken are taken now and             *)
(* close_internal is spawned with a timeout of 60 s.                       *)
DropQueue ==
    /\ ~tasks.dropped
    /\ IF tasks.wait = "none"
       THEN tasks' = [IF registered = {}
                      THEN [tasks EXCEPT !.close = TRUE, !.changed = FALSE,
                                         !.sends = @ + 1,
                                         !.wait = "closing", !.res = Some("Ok")]
                      ELSE [tasks EXCEPT !.close = TRUE, !.changed = FALSE,
                                         !.sends = @ + 1,
                                         !.wait = "waiting",
                                         !.deadline = now + DropTimeout]
                      EXCEPT !.dropped = TRUE]
       ELSE tasks' = [tasks EXCEPT !.dropped = TRUE]
    /\ UNCHANGED <<now, registry, worker, jobs, count, pc, rc, ready_jobs, runners,
                   builders, registered, notify_task_ready, job_finished, last_add, close_tx>>

(* The builders of the workers of the queue. *)
QueueBuilders ==
    { Builder({"m", "n"}, Some(2), Some(3)),
      Builder({"m", "n"}, None, Some(1)),
      Builder({"m"}, None, None) }

(* The registry holds m, of weight 1, and n, of weight 2; no worker is     *)
(* built.                                                                  *)
InitQueue ==
    Opened(<<[name |-> "m", weight |-> 1], [name |-> "n", weight |-> 2]>>)

(* The number of workers built for one queue. *)
MaxWorkers == 1

NextQueue ==
    \/ Submit
    \/ Advance
    \/ \E w \in 1..MaxWorkers, b \in QueueBuilders : Build(w, b)
    \/ \E w \in Workers : RunLoop(w)
    \/ \E w \in Workers : RunReadyJobs(w)
    \/ \E w \in Workers : StartJobs(w)
    \/ \E w \in Workers : SelectClose(w)
    \/ \E w \in Workers : SelectTaskReady(w)
    \/ \E w \in Workers : SelectJobFinished(w)
    \/ \E h \in BagToSet(runners), result \in Results : Report(h, result)
    \/ \E h \in BagToSet(runners) : JobFinished(h)
    \/ \E timeout \in CloseTimeouts : Close(timeout)
    \/ WaitChanged
    \/ WaitTimeout
    \/ CloseReturns

SpecQueue == InitQueue /\ [][NextQueue]_vars

(* The queue without jobs: workers are built, close() is called any number *)
(* of times and the Queue is dropped.                                      *)
NextClose ==
    \/ Advance
    \/ \E w \in 1..MaxWorkers, b \in QueueBuilders : Build(w, b)
    \/ \E w \in Workers : RunLoop(w)
    \/ \E w \in Workers : RunReadyJobs(w)
    \/ \E w \in Workers : StartJobs(w)
    \/ \E w \in Workers : SelectClose(w)
    \/ \E timeout \in CloseTimeouts : Close(timeout)
    \/ \E timeout \in CloseTimeouts : CloseTaken(timeout)
    \/ DropQueue
    \/ WaitChanged
    \/ WaitTimeout
    \/ CloseReturns

SpecClose == InitQueue /\ [][NextClose]_vars

(* The open queue and workers that are unregistered one by one. *)
NextWorker ==
    \/ Submit
    \/ Advance
    \/ \E w \in 1..MaxWorkers, b \in QueueBuilders : Build(w, b)
    \/ \E w \in Workers : RunLoop(w)
    \/ \E w \in Workers : RunReadyJobs(w)
    \/ \E w \in Workers : StartJobs(w)
    \/ \E w \in Workers : SelectClose(w)
    \/ \E w \in Workers : SelectTaskReady(w)
    \/ \E w \in Workers : SelectJobFinished(w)
    \/ \E h \in BagToSet(runners), result \in Results : Report(h, result)
    \/ \E h \in BagToSet(runners) : JobFinished(h)
    \/ \E w \in Workers : Unregister(w)

SpecWorker == InitQueue /\ [][NextWorker]_vars

(* The queue while it is open: close() is not called. *)
NextLive ==
    \/ Submit
    \/ Advance
    \/ \E w \in 1..MaxWorkers, b \in QueueBuilders : Build(w, b)
    \/ \E w \in Workers : RunLoop(w)
    \/ \E w \in Workers : RunReadyJobs(w)
    \/ \E w \in Workers : StartJobs(w)
    \/ \E w \in Workers : SelectTaskReady(w)
    \/ \E w \in Workers : SelectJobFinished(w)
    \/ \E h \in BagToSet(runners), result \in Results : Report(h, result)
    \/ \E h \in BagToSet(runners) : JobFinished(h)

(* tokio runs every spawned task that can make a step: the dispatcher of   *)
(* each worker (tokio::spawn(worker_internal.run(..))) and the runner      *)
(* tasks (tokio::spawn in run_job). Nothing makes a caller submit a job,   *)
(* build a worker or let time pass.                                        *)
TasksRun ==
    /\ \A w \in 1..MaxWorkers :
          /\ WF_vars(w \in Workers /\ RunLoop(w))
          /\ WF_vars(w \in Workers /\ RunReadyJobs(w))
          /\ WF_vars(w \in Workers /\ StartJobs(w))
          /\ WF_vars(w \in Workers /\ SelectTaskReady(w))
          /\ WF_vars(w \in Workers /\ SelectJobFinished(w))
    /\ WF_vars(\E h \in BagToSet(runners), result \in Results : Report(h, result))
    /\ WF_vars(\E h \in BagToSet(runners) : JobFinished(h))

SpecLive == InitQueue /\ [][NextLive]_vars /\ TasksRun

(* The queue is opened on a store that holds jobs of an earlier run, all   *)
(* Pending and due: jobs of m and n with priorities 0 to 2.                *)
MaxFitJobs == 3

FitRows ==
    {NewJobRow(t, p, Some(0), 0, 1, 0) : t \in {"m", "n"}, p \in 0..2}

InitFit ==
    \E rows \in [1..MaxFitJobs -> FitRows] :
        OpenedOn(<<[name |-> "m", weight |-> 1], [name |-> "n", weight |-> 2]>>, rows)

(* One worker for m and n with min_concurrency(2) and max_concurrency(2):  *)
(* with a job of m running, a job of n does not fit.  Nothing is          *)
(* submitted, so the dispatcher is woken by job-finished only.             *)
NextFit ==
    \/ Build(1, Builder({"m", "n"}, Some(2), Some(2)))
    \/ \E w \in Workers : RunLoop(w)
    \/ \E w \in Workers : RunReadyJobs(w)
    \/ \E w \in Workers : StartJobs(w)
    \/ \E w \in Workers : SelectJobFinished(w)
    \/ \E h \in BagToSet(runners), result \in Results : Report(h, result)
    \/ \E h \in BagToSet(runners) : JobFinished(h)

SpecFit == InitFit /\ [][NextFit]_vars /\ TasksRun

----------------------------------------------------------------------------
(* What the claims below speak about.                                      *)

Pending(js, j) == js[j].status = "active" /\ js[j].worker_id = None
IsRunning(js, j) == js[j].status = "active" /\ js[j].worker_id # None

(* The Running rows a worker owns, and their total weight. *)
OwnedJobs(w) == {j \in JobIds : IsRunning(jobs, j) /\ jobs[j].worker_id = Some(w)}

RECURSIVE WeightOf(_)
WeightOf(S) ==
    IF S = {} THEN 0
    ELSE LET j == CHOOSE x \in S : TRUE
         IN  Weight(jobs[j].job_type) + WeightOf(S \ {j})

(* A step in which worker w's claim transaction commits, and the job ids   *)
(* it claimed, in the order in which their runners are started.            *)
ClaimStep(w) == pc[w] = "claim" /\ pc'[w] = "start"
Claimed(w) == [i \in DOMAIN ready_jobs'[w] |-> ready_jobs'[w][i].job_id]

(* The jobs a claim of w may take according to the specification: of an    *)
(* accepted type, due, and without an owner.                               *)
Claimable(w) ==
    {j \in JobIds : /\ Pending(jobs, j)
                    /\ jobs[j].job_type \in worker[w].job_list
                    /\ jobs[j].run_at <= now}

(* C1: for every worker, the weights of the Running jobs it owns sum to at *)
(* most its max_concurrency, in every reachable state.                     *)
WeightWithinMax ==
    \A w \in Workers : WeightOf(OwnedJobs(w)) <= worker[w].max_concurrency

(* C2: a claim only takes jobs that have no owner: every job a claim marks *)
(* Running was Pending (worker_id null) when the claim was made.           *)
ClaimTakesUnowned ==
    [][\A w \in Workers : ClaimStep(w) =>
          \A i \in DOMAIN Claimed(w) : Pending(jobs, Claimed(w)[i])]_vars

(* C3: starting order within a worker: when a claim starts A, every job B  *)
(* that was claimable at that claim and is not started before A in it has  *)
(* a lower priority than A, or the same priority and a run_at not earlier. *)
StartOrder ==
    [][\A w \in Workers : ClaimStep(w) =>
          \A i \in DOMAIN Claimed(w) : \A B \in Claimable(w) :
             LET A == Claimed(w)[i] IN
             A \in Claimable(w) =>
                \/ \E k \in 1..i : Claimed(w)[k] = B
                \/ jobs[A].priority > jobs[B].priority
                \/ /\ jobs[A].priority = jobs[B].priority
                   /\ jobs[A].run_at <= jobs[B].run_at]_vars

(* A claim has just started a job of priority 2 that became due later than *)
(* a job of priority 1, which it starts second or leaves for later.        *)
StartOrderWitness ==
    \E w \in Workers : \E B \in JobIds :
        /\ pc[w] = "start"
        /\ ready_jobs[w] # <<>>
        /\ LET A == ready_jobs[w][1].job_id IN
           /\ A # B
           /\ jobs[A].priority > jobs[B].priority
           /\ jobs[A].run_at > jobs[B].run_at
           /\ jobs[A].started_at = Some(now)
           /\ jobs[B].job_type \in worker[w].job_list
           /\ jobs[B].current_try = 0

(* C4: two claimable jobs with equal priority and equal run_at are started *)
(* in ascending job_id order.                                              *)
TiesByJobId ==
    [][\A w \in Workers : ClaimStep(w) =>
          \A i, k \in DOMAIN Claimed(w) :
             LET A == Claimed(w)[i]
                 B == Claimed(w)[k]
             IN  /\ i < k
                 /\ A \in Claimable(w) /\ B \in Claimable(w)
                 /\ jobs[A].priority = jobs[B].priority
                 /\ jobs[A].run_at = jobs[B].run_at
                 => A < B]_vars

(* C5: a worker only claims jobs of its accepted types, and a job whose    *)
(* type no worker accepts stays Pending with an empty run_info.            *)
OnlyAcceptedTypes ==
    /\ \A w \in Workers : \A i \in DOMAIN ready_jobs[w] :
          jobs[ready_jobs[w][i].job_id].job_type \in worker[w].job_list
    /\ \A h \in BagToSet(runners) :
          jobs[h.job_id].job_type \in worker[h.worker].job_list
    /\ \A j \in JobIds :
          /\ IsRunning(jobs, j) =>
                jobs[j].job_type \in worker[Get(jobs[j].worker_id)].job_list
          /\ (\A w \in Workers : jobs[j].job_type \notin worker[w].job_list) =>
                Pending(jobs, j) /\ jobs[j].run_info = <<>>

(* A job of a type no worker accepts is due and still Pending after a job  *)
(* of another type, submitted after it, has run to its end.                *)
OnlyAcceptedTypesWitness ==
    \E j, k \in JobIds :
        /\ j < k
        /\ \A w \in Workers : jobs[j].job_type \notin worker[w].job_list
        /\ jobs[j].run_at <= now
        /\ Pending(jobs, j)
        /\ jobs[k].status = "Succeeded"

(* The active rows of a type w accepts whose run_at has come. *)
Due(w) ==
    {j \in JobIds : /\ jobs[j].status = "active"
                    /\ jobs[j].job_type \in worker[w].job_list
                    /\ jobs[j].run_at <= now}

(* C6: no job is started before its run_at: every job a claim takes is due *)
(* (run_at <= now), so started_at >= run_at; and a due job of an accepted  *)
(* type is eligible at once: a claim leaves it Pending only when the query *)
(* may put another row before it or it does not fit the worker's budget.   *)
StartedWhenDue ==
    [][/\ \A j \in DOMAIN jobs' :
             jobs'[j].started_at # None => jobs'[j].run_at <= Get(jobs'[j].started_at)
       /\ \A w \in Workers : ClaimStep(w) =>
             /\ \A i \in DOMAIN Claimed(w) : jobs[Claimed(w)[i]].run_at <= now
             /\ \A B \in Claimable(w) :
                   \/ B \in Range(Claimed(w))
                   \/ \E X \in Due(w) \ {B} :
                         \/ jobs[X].priority > jobs[B].priority
                         \/ /\ jobs[X].priority = jobs[B].priority
                            /\ jobs[X].run_at <= jobs[B].run_at
                   \/ rc[w] + Weight(jobs[B].job_type) > worker[w].max_concurrency]_vars

(* A job submitted at second 1 or later with a run_at in the past is       *)
(* Running, started at the second of its claim.                            *)
StartedWhenDueWitness ==
    \E j \in JobIds :
        /\ IsRunning(jobs, j)
        /\ jobs[j].current_try = 0
        /\ jobs[j].run_at < Get(jobs[j].started_at)

(* C7: every Running job has a worker_id, a started_at and an expires_at,  *)
(* and right after the claim expires_at = started_at + default_timeout.    *)
RunningHasOwner ==
    [][/\ \A j \in DOMAIN jobs' :
             IsRunning(jobs', j) =>
                jobs'[j].started_at # None /\ jobs'[j].expires_at # None
       /\ \A w \in Workers : ClaimStep(w) =>
             \A i \in DOMAIN Claimed(w) :
                LET row == jobs'[Claimed(w)[i]] IN
                /\ row.worker_id = Some(w)
                /\ row.started_at = Some(now)
                /\ row.expires_at = Some(Get(row.started_at) + row.default_timeout)]_vars

(* A job is Running in its second attempt, with its expiry one timeout     *)
(* after its start.                                                        *)
RunningHasOwnerWitness ==
    \E j \in JobIds :
        /\ IsRunning(jobs, j)
        /\ jobs[j].current_try = 1
        /\ jobs[j].expires_at = Some(Get(jobs[j].started_at) + jobs[j].default_timeout)

FailRetriesOrEnds ==
    [][/\ \A j \in DOMAIN jobs :
             LET k == jobs[j].current_try
                 n == Len(jobs[j].run_info)
             IN  (/\ Len(jobs'[j].run_info) = n + 1
                  /\ ~jobs'[j].run_info[n + 1].success) =>
                    /\ (jobs'[j].status = "Failed") <=> (k + 1 > jobs[j].max_retries)
                    /\ k + 1 <= jobs[j].max_retries =>
                          Pending(jobs', j) /\ jobs'[j].current_try = k + 1
       /\ \A j \in DOMAIN jobs' :
             IsRunning(jobs', j) =>
                /\ jobs'[j].current_try <= jobs'[j].max_retries
                /\ \A i \in DOMAIN jobs'[j].run_info : ~jobs'[j].run_info[i].success]_vars

(* A job with max_retries = 0 is Failed after its first failure, and a job *)
(* with max_retries = 1 is in its second attempt after its first failure.  *)
FailRetriesOrEndsWitness ==
    \E j, k \in JobIds :
        /\ jobs[j].max_retries = 0 /\ jobs[j].status = "Failed"
        /\ Len(jobs[j].run_info) = 1
        /\ jobs[k].max_retries = 1 /\ IsRunning(jobs, k)
        /\ jobs[k].current_try = 1

(* C10: current_try <= max_retries + 1 and run_info has at most            *)
(* max_retries + 1 records; a job whose every attempt failed and that has  *)
(* come to its end is Failed with exactly max_retries + 1 records, and a   *)
(* Failed job has max_retries + 1 records, all of them failures.           *)
TriesBounded ==
    \A j \in JobIds :
        LET row == jobs[j]
            all_failed == \A i \in DOMAIN row.run_info : ~row.run_info[i].success
        IN  /\ row.current_try <= row.max_retries + 1
            /\ Len(row.run_info) <= row.max_retries + 1
            /\ (row.status # "active" /\ all_failed) =>
                  row.status = "Failed" /\ Len(row.run_info) = row.max_retries + 1
            /\ row.status = "Failed" =>
                  all_failed /\ Len(row.run_info) = row.max_retries + 1

(* A job with max_retries = 1 is Failed with two failure records. *)
TriesBoundedWitness ==
    \E j \in JobIds :
        /\ jobs[j].status = "Failed"
        /\ jobs[j].max_retries = 1
        /\ Len(jobs[j].run_info) = 2

(* C11: after a non-terminal Fail at time now on try k, run_at is now + d  *)
(* with I * m^k <= d <= I * m^k * (1 + r), and no attempt starts before    *)
(* the run_at of its job.                                                  *)
BackoffWithinBounds ==
    [][\A j \in DOMAIN jobs :
          LET k == jobs[j].current_try
              n == Len(jobs[j].run_info)
              base == Retries.backoff_initial_interval
                         * Pow(Retries.backoff_multiplier, k)
          IN  /\ (/\ Len(jobs'[j].run_info) = n + 1
                  /\ ~jobs'[j].run_info[n + 1].success
                  /\ jobs'[j].status = "active") =>
                    /\ jobs'[j].run_at >= now + base
                    /\ 100 * (jobs'[j].run_at - now)
                          <= base * (100 + Retries.backoff_randomization_pct)
              /\ jobs'[j].started_at # None =>
                    Get(jobs'[j].started_at) >= jobs'[j].run_at]_vars

(* A job that failed on try 0 and again on try 1 waits for its third       *)
(* attempt, two seconds or more after the second failure.                  *)
BackoffWithinBoundsWitness ==
    \E j \in JobIds :
        /\ Pending(jobs, j)
        /\ jobs[j].current_try = 2
        /\ jobs[j].run_at >= now + 2

(* C12: after a Complete or a terminal Fail the job's worker_id is null,   *)
(* in that state and in every later one.                                   *)
DoneHasNoWorker ==
    \A j \in JobIds : jobs[j].status # "active" => jobs[j].worker_id = None

(* One job has succeeded and another has failed for good, and time has     *)
(* passed since.                                                           *)
DoneHasNoWorkerWitness ==
    \E j, k \in JobIds :
        /\ jobs[j].status = "Succeeded"
        /\ jobs[k].status = "Failed"
        /\ now > Max(Get(jobs[j].started_at), Get(jobs[k].started_at))

(* A step of one runner: its record h becomes h2. *)
RunnerStep(h, h2) ==
    /\ CopiesIn(h, runners') < CopiesIn(h, runners)
    /\ CopiesIn(h2, runners') > CopiesIn(h2, runners)

(* C13: during one attempt expires_at never decreases: every heartbeat and *)
(* every checkpoint, of the job function or of the auto-heartbeat task,    *)
(* leaves the expiry in the store, and the expiry the runner keeps for its *)
(* next auto-heartbeat, greater than or equal to what it was.              *)
ExpiresNeverDecreases ==
    [][/\ \A j \in DOMAIN jobs :
             (/\ pc' = pc
              /\ IsRunning(jobs, j) /\ IsRunning(jobs', j)
              /\ jobs'[j].current_try = jobs[j].current_try) =>
                Get(jobs'[j].expires_at) >= Get(jobs[j].expires_at)
       /\ \A h \in BagToSet(runners) : \A h2 \in BagToSet(runners') :
             RunnerStep(h, h2) => h2.expires >= h.expires]_vars

(* C14: a Heartbeat, Complete or Fail issued with a worker_id that is not  *)
(* the job's current owner is a no-op: a step of a runner whose worker     *)
(* does not own the job leaves every row as it was.                        *)
MismatchIsNoOp ==
    [][\A h \in BagToSet(runners) : \A h2 \in BagToSet(runners') :
          (/\ RunnerStep(h, h2)
           /\ \/ jobs[h.job_id].status # "active"
              \/ jobs[h.job_id].worker_id # Some(h.worker)) =>
             jobs' = jobs]_vars

(* A job function whose attempt has been failed by expiry, so that the job *)
(* is Pending again with one record, has then sent a heartbeat and got an  *)
(* error back.                                                             *)
MismatchIsNoOpWitness ==
    \E h \in BagToSet(runners) :
        /\ h.call = Err
        /\ Pending(jobs, h.job_id)
        /\ Len(jobs[h.job_id].run_info) = 1
        /\ jobs[h.job_id].expires_at = None

(* C15: after the expiry sweep has reclaimed a job from an attempt, a      *)
(* Complete or Fail reported later by that attempt's task is ignored: it   *)
(* adds no record and does not change the state of the job, also when the  *)
(* job is Running again in a newer attempt.                                *)
StaleReportIgnored ==
    [][\A h \in BagToSet(runners) : \A h2 \in BagToSet(runners') :
          LET j == h.job_id IN
          (/\ RunnerStep(h, h2)
           /\ Len(jobs[j].run_info) > h.current_try
           /\ jobs[j].run_info[h.current_try + 1].info = "Job expired") =>
             /\ jobs'[j].run_info = jobs[j].run_info
             /\ jobs'[j].status = jobs[j].status
             /\ jobs'[j].current_try = jobs[j].current_try
             /\ jobs'[j].worker_id = jobs[j].worker_id]_vars

(* C17: a job whose runner always outlives the timeout is failed by expiry *)
(* in every attempt: all its records are "Job expired", and when it has    *)
(* come to its end it is Failed with max_retries + 1 of them.              *)
SleeperEndsExpired ==
    \A j \in JobIds :
        Sleeps(jobs[j].job_type) =>
           /\ \A i \in DOMAIN jobs[j].run_info :
                 jobs[j].run_info[i].info = "Job expired"
           /\ jobs[j].status # "active" =>
                 /\ jobs[j].status = "Failed"
                 /\ Len(jobs[j].run_info) = jobs[j].max_retries + 1

(* The record the expiry sweep appends. *)
ExpiredRecord == [success |-> FALSE, info |-> "Job expired"]

(* C16: an expiry sweep at time now fails exactly the jobs that are        *)
(* Running with expires_at < now, each with "Job expired" and through the  *)
(* retry rule of Fail; a Running job with expires_at >= now is never       *)
(* failed by it.                                                           *)
ExpiredAreFailed ==
    [][LET Overdue(j) == /\ IsRunning(jobs, j)
                         /\ Get(jobs[j].expires_at) < now
           Swept(j) == /\ Len(jobs'[j].run_info) = Len(jobs[j].run_info) + 1
                       /\ jobs'[j].run_info[Len(jobs'[j].run_info)] = ExpiredRecord
       IN  \A j \in DOMAIN jobs :
              LET k == jobs[j].current_try IN
              /\ Swept(j) =>
                    /\ Overdue(j)
                    /\ jobs'[j].worker_id = None
                    /\ jobs'[j].current_try = k + 1
                    /\ k + 1 > jobs[j].max_retries => jobs'[j].status = "Failed"
                    /\ k + 1 <= jobs[j].max_retries =>
                          /\ Pending(jobs', j)
                          /\ jobs'[j].run_at >= now + Retries.backoff_initial_interval
                                                       * Pow(Retries.backoff_multiplier, k)
              /\ (\E i \in DOMAIN jobs : Swept(i)) =>
                    /\ Overdue(j) => Swept(j)
                    /\ ~Overdue(j) => jobs'[j] = jobs[j]]_vars

(* The sweep has failed one job while another, Running with its expiry at  *)
(* this very second, was left alone.                                       *)
ExpiredAreFailedWitness ==
    \E j, k \in JobIds :
        /\ jobs[j].run_info # <<>>
        /\ jobs[j].run_info[Len(jobs[j].run_info)] = ExpiredRecord
        /\ jobs[j].run_at > now
        /\ IsRunning(jobs, k)
        /\ jobs[k].expires_at = Some(now)
        /\ Get(jobs[k].started_at) < now

(* C18: explicit complete and fail take precedence: when the job function  *)
(* of an explicitly finished attempt returns or fails, no row changes, so  *)
(* the attempt's job handle adds no second record; and a Complete of a job *)
(* that has been completed changes nothing.                                *)
ExplicitTakesPrecedence ==
    [][\A h \in BagToSet(runners) : \A h2 \in BagToSet(runners') :
          RunnerStep(h, h2) =>
             /\ (h.finished /\ ~h.done /\ h2.done) => jobs' = jobs
             /\ jobs[h.job_id].status = "Succeeded" => jobs' = jobs]_vars

(* As in the test explicit_finish: the job failed explicitly on try 0 and  *)
(* completed explicitly on try 1, and the job function of try 1 has        *)
(* returned since; the job has these two records.                          *)
ExplicitTakesPrecedenceWitness ==
    \E h \in BagToSet(runners) :
        /\ h.finished /\ h.done
        /\ h.current_try = 1
        /\ jobs[h.job_id].status = "Succeeded"
        /\ jobs[h.job_id].run_info =
              <<[success |-> FALSE, info |-> "explicit fail"],
                [success |-> TRUE, info |-> "explicit succeed"]>>

(* C19: when the attempt was not explicitly finished, the end of the job   *)
(* function gives exactly one report: the runner of a job its worker still *)
(* owns appends one record, a success with the returned info or a failure  *)
(* with the error or the panic's message.                                  *)
ReturnGivesOneReport ==
    [][\A h \in BagToSet(runners) : \A h2 \in BagToSet(runners') :
          LET j == h.job_id
              n == Len(jobs[j].run_info)
          IN  (/\ RunnerStep(h, h2)
               /\ ~h.done /\ h2.done
               /\ ~h.finished
               /\ jobs[j].status = "active"
               /\ jobs[j].worker_id = Some(h.worker)) =>
                 /\ Len(jobs'[j].run_info) = n + 1
                 /\ \/ jobs'[j].run_info[n + 1] = [success |-> TRUE, info |-> "ok"]
                    \/ /\ ~jobs'[j].run_info[n + 1].success
                       /\ jobs'[j].run_info[n + 1].info
                             \in {"err", "boom", "bang", "Panic"}]_vars

(* C20: the payload handed to an attempt is the payload of the last        *)
(* checkpoint, or the submitted payload when there was none: the submitted *)
(* payload never changes, the checkpointed payload changes only when the   *)
(* job function of the job's owner makes a checkpoint, to the payload of   *)
(* that checkpoint, and a claim hands out the checkpointed payload if      *)
(* there is one and the submitted payload otherwise.                       *)
CheckpointThenRetry ==
    [][/\ \A j \in DOMAIN jobs :
             /\ jobs'[j].payload = jobs[j].payload
             /\ jobs'[j].checkpointed_payload # jobs[j].checkpointed_payload =>
                   \E h \in BagToSet(runners) : \E h2 \in BagToSet(runners') :
                      /\ RunnerStep(h, h2)
                      /\ h.job_id = j
                      /\ jobs[j].worker_id = Some(h.worker)
                      /\ h.call = None /\ h2.call # None /\ h2.call[1]
                      /\ jobs'[j].checkpointed_payload # None
                      /\ Get(jobs'[j].checkpointed_payload) \in CheckpointPayloads
       /\ \A w \in Workers : ClaimStep(w) =>
             \A i \in DOMAIN ready_jobs'[w] :
                LET h == ready_jobs'[w][i]
                    row == jobs[h.job_id]
                IN  h.payload = IF row.checkpointed_payload = None
                                THEN row.payload
                                ELSE Get(row.checkpointed_payload)]_vars

(* A second attempt runs with the payload 2 of a checkpoint, after the     *)
(* first attempt, which was given the submitted payload 0, has failed.     *)
CheckpointThenRetryWitness ==
    \E h \in BagToSet(runners) :
        /\ h.current_try = 1
        /\ h.payload = 2
        /\ jobs[h.job_id].payload = 0
        /\ ~jobs[h.job_id].run_info[1].success
        /\ IsRunning(jobs, h.job_id)

(* The state a row is in. *)
StateOf(row) ==
    IF row.status # "active" THEN row.status
    ELSE IF row.worker_id # None THEN "Running" ELSE "Pending"

(* C28: a job's state only changes along the lifecycle: a submitted job is *)
(* Pending; Pending becomes Running, by a claim; Running becomes Succeeded *)
(* with a success record, or Pending or Failed with a failure record;      *)
(* a Succeeded or Failed row is never claimed or modified again.           *)
StateFollowsLifecycle ==
    [][/\ \A j \in DOMAIN jobs' \ DOMAIN jobs : StateOf(jobs'[j]) = "Pending"
       /\ \A j \in DOMAIN jobs :
             LET from == StateOf(jobs[j])
                 to == StateOf(jobs'[j])
                 n == Len(jobs[j].run_info)
                 Appended(success) ==
                     /\ Len(jobs'[j].run_info) = n + 1
                     /\ SubSeq(jobs'[j].run_info, 1, n) = jobs[j].run_info
                     /\ jobs'[j].run_info[n + 1].success = success
             IN  /\ from # to =>
                    \/ /\ from = "Pending" /\ to = "Running"
                       /\ \E w \in Workers :
                             /\ ClaimStep(w)
                             /\ jobs'[j].worker_id = Some(w)
                             /\ \E i \in DOMAIN Claimed(w) : Claimed(w)[i] = j
                    \/ from = "Running" /\ to = "Succeeded" /\ Appended(TRUE)
                    \/ from = "Running" /\ to = "Pending" /\ Appended(FALSE)
                    \/ from = "Running" /\ to = "Failed" /\ Appended(FALSE)
                 /\ from \in {"Succeeded", "Failed"} =>
                       /\ jobs'[j] = jobs[j]
                       /\ \A w \in Workers : ClaimStep(w) =>
                             \A i \in DOMAIN Claimed(w) : Claimed(w)[i] # j]_vars

(* One job has gone through Pending, Running, Pending, Running and         *)
(* Succeeded, another has ended Failed, and a runner of a finished job is  *)
(* still to return while its worker is below min_concurrency.              *)
StateFollowsLifecycleWitness ==
    \E j, k \in JobIds :
        /\ StateOf(jobs[j]) = "Succeeded"
        /\ Len(jobs[j].run_info) = 2
        /\ StateOf(jobs[k]) = "Failed"
        /\ \E h \in BagToSet(runners) :
              /\ ~h.done
              /\ StateOf(jobs[h.job_id]) \in {"Succeeded", "Failed"}
              /\ count[h.worker] < worker[h.worker].min_concurrency

(* C29: job definition names are unique in a registry: an add of a         *)
(* definition whose name is present panics and leaves the registry as it   *)
(* was, an add of a new name puts the definition in and changes nothing    *)
(* else, so that no definition of the registry is ever replaced.           *)
AddKeepsNamesUnique ==
    [][/\ \A name \in DOMAIN registry :
             name \in DOMAIN registry' /\ registry'[name] = registry[name]
       /\ last_add' # last_add =>
             LET job == last_add'.job IN
             IF job.name \in DOMAIN registry
             THEN last_add'.result = "panic" /\ registry' = registry
             ELSE /\ last_add'.result = "ok"
                  /\ DOMAIN registry' = DOMAIN registry \cup {job.name}
                  /\ registry'[job.name] = job.weight]_vars

(* A definition was refused whose name the registry holds with another     *)
(* weight, after two others were added.                                    *)
AddKeepsNamesUniqueWitness ==
    /\ last_add # None
    /\ last_add.result = "panic"
    /\ registry[last_add.job.name] # last_add.job.weight
    /\ Cardinality(DOMAIN registry) = 3

(* The greatest weight among the job types, 1 when there is none. *)
MaxWeight(types) ==
    IF types = {} THEN 1
    ELSE CHOOSE m \in {registry[t] : t \in types} :
            \A t \in types : registry[t] <= m

(* C30: a built worker accepts the requested job types, all registered     *)
(* types when none is requested; its max_concurrency is the greater of the *)
(* requested one and W, the greatest weight among its accepted types, or W *)
(* when none is requested; its min_concurrency is max(1, requested), or    *)
(* max(1, max_concurrency / 2) when none is requested.                     *)
BuiltAsRequested ==
    \A w \in Workers :
        LET b == builders[w]
            types == IF b.jobs = {} THEN DOMAIN registry ELSE b.jobs
            W == MaxWeight(types)
            maxc == IF b.max = None THEN W
                    ELSE IF Get(b.max) >= W THEN Get(b.max) ELSE W
            minc == IF b.min = None
                    THEN (IF maxc \div 2 >= 1 THEN maxc \div 2 ELSE 1)
                    ELSE Get(b.min)
        IN  /\ worker[w].job_list = types
            /\ worker[w].max_concurrency = maxc
            /\ worker[w].min_concurrency = minc

(* A worker was built with max_concurrency(1) and no min_concurrency for   *)
(* types of which one weighs 2: it has max_concurrency 2 and               *)
(* min_concurrency 1.                                                      *)
BuiltAsRequestedWitness ==
    \E w \in Workers :
        /\ builders[w].max = Some(1)
        /\ builders[w].min = None
        /\ \E t \in worker[w].job_list : registry[t] = 2
        /\ worker[w].max_concurrency = 2
        /\ worker[w].min_concurrency = 1

OverweightNeverClaimed ==
    [][\A w \in Workers : \A j \in DOMAIN jobs :
          Weight(jobs[j].job_type) > worker[w].max_concurrency =>
             /\ jobs[j].job_type \notin worker[w].job_list
             /\ jobs[j].worker_id # Some(w)
             /\ ClaimStep(w) =>
                   \A i \in DOMAIN Claimed(w) : Claimed(w)[i] # j]_vars

(* A job of weight 2 is ready and Pending, and a worker with               *)
(* max_concurrency 1 has claimed, after that job was submitted and         *)
(* ready, a job that was submitted later.                                  *)
OverweightNeverClaimedWitness ==
    \E w \in Workers : \E j, k \in JobIds :
        /\ Weight(jobs[j].job_type) > worker[w].max_concurrency
        /\ Pending(jobs, j)
        /\ jobs[j].run_info = <<>>
        /\ j < k
        /\ IsRunning(jobs, k)
        /\ jobs[k].worker_id = Some(w)
        /\ jobs[j].run_at <= Get(jobs[k].started_at)

(* C25: graceful shutdown: when close(timeout) has returned Ok, no job is  *)
(* Running: every job is Succeeded, Failed or Pending, and a Pending job   *)
(* has no runner.                                                          *)
CloseOkNothingRunning ==
    (tasks.wait = "returned" /\ tasks.res = Some("Ok")) =>
        /\ \A j \in JobIds : StateOf(jobs[j]) # "Running"
        /\ runners = EmptyBag

(* C26: close(timeout) returns Ok at once when there is no worker, and Ok  *)
(* only with a worker count of 0 that was reached no later than the end    *)
(* of the timeout; it returns the timeout error only when the timeout is   *)
(* over and the worker count was not 0 before the end of the timeout.      *)
CloseResult ==
    [][tasks'.res # tasks.res =>
          /\ (tasks.wait = "none" /\ registered = {}) => tasks'.res = Some("Ok")
          /\ tasks'.res = Some("Ok") =>
                /\ registered = {}
                /\ tasks.wait = "waiting" => Get(tasks.zero_at) <= tasks.deadline
          /\ tasks'.res = Some("Timeout") =>
                /\ tasks.wait = "waiting"
                /\ now >= tasks.deadline
                /\ registered = {} => Get(tasks.zero_at) >= tasks.deadline]_vars

(* C27: when close(timeout) has timed out, the runners in flight keep      *)
(* running and their terminal reports are still applied: a job function    *)
(* that returns for a job its worker owns adds its record to the job.      *)
DrainsAfterTimeout ==
    [][\A h \in BagToSet(runners) : \A h2 \in BagToSet(runners') :
          LET j == h.job_id IN
          (/\ tasks.res = Some("Timeout")
           /\ RunnerStep(h, h2)
           /\ ~h.done /\ h2.done
           /\ jobs[j].status = "active"
           /\ jobs[j].worker_id = Some(h.worker)) =>
             /\ Len(jobs'[j].run_info) = Len(jobs[j].run_info) + 1
             /\ StateOf(jobs'[j]) = "Succeeded"]_vars

(* A ready job of a type the worker accepts that no worker has claimed. *)
ReadyFor(w, j) ==
    /\ w \in Workers
    /\ j \in JobIds
    /\ Pending(jobs, j)
    /\ jobs[j].run_at <= now
    /\ jobs[j].job_type \in worker[w].job_list

(* C22: jobs submitted before any worker exists are picked up when a       *)
(* matching worker is built: a ready Pending job of an accepted type, with *)
(* the worker at the top of its loop, nothing running and no notify-ready  *)
(* fired, is eventually claimed by the worker.                             *)
PendingJobsPickedUp ==
    \A w \in 1..MaxWorkers : \A j \in 1..MaxJobs :
        (/\ ReadyFor(w, j)
         /\ pc[w] = "loop"
         /\ count[w] = 0
         /\ ~notify_task_ready[w]
         /\ ~job_finished[w])
        ~> (j \in JobIds /\ jobs[j].worker_id = Some(w))

(* Two jobs were Pending when the worker was built; it has claimed both    *)
(* and no notify-ready was fired on it.                                    *)
PendingJobsPickedUpWitness ==
    \E w \in Workers :
        /\ Len(jobs) = MaxJobs
        /\ \A j \in JobIds : jobs[j].worker_id = Some(w)
        /\ ~notify_task_ready[w]

(* The runner of job j was spawned by worker w. *)
StartedBy(w, j) ==
    \E h \in BagToSet(runners) : h.job_id = j /\ h.worker = w

(* C23: a job that becomes ready (it is submitted with no run_at, or the   *)
(* run_at of a future job is reached) fires notify-ready on every worker   *)
(* that accepts its type, and a ready job of an accepted type, with the    *)
(* worker waiting in its select! below min_concurrency, is eventually      *)
(* started by the worker.                                                  *)
ReadyJobIsStarted ==
    /\ [][\A w \in Workers : \A j \in DOMAIN jobs' :
            (/\ j \in DOMAIN jobs => jobs[j].run_at > now
             /\ jobs'[j].run_at <= now'
             /\ Pending(jobs', j)
             /\ jobs'[j].job_type \in worker[w].job_list)
            => notify_task_ready'[w]]_vars
    /\ \A w \in 1..MaxWorkers : \A j \in 1..MaxJobs :
          (/\ ReadyFor(w, j)
           /\ pc[w] = "select_grab"
           /\ count[w] < worker[w].min_concurrency)
          ~> StartedBy(w, j)

(* A job became ready after the worker had started another, whose weight   *)
(* is below min_concurrency and whose runner has not returned, and the     *)
(* worker has started it too, with a runner spawned later.                 *)
ReadyJobIsStartedWitness ==
    \E w \in Workers : \E hj, hk \in BagToSet(runners) :
        /\ hj.worker = w /\ hk.worker = w
        /\ hj.job_id # hk.job_id
        /\ ~hk.done /\ hk.hb = None /\ hj.hb = None
        /\ Weight(jobs[hk.job_id].job_type) < worker[w].min_concurrency
        /\ jobs[hj.job_id].run_at > hk.expires - jobs[hk.job_id].default_timeout
        /\ hj.expires - jobs[hj.job_id].default_timeout >= jobs[hj.job_id].run_at

(* C31: dispatchers stop claiming on shutdown: once the worker's own or    *)
(* the queue's close signal has been sent, the dispatcher begins no claim: *)
(* it does not go from the top of its loop to run_ready_jobs, whatever     *)
(* signals are pending and whatever its counter.                           *)
NoClaimAfterCloseSent ==
    [][\A w \in Workers :
          (CloseSent(w) /\ pc[w] = "loop") => pc'[w] # "claim"]_vars

(* C32: a dispatcher is taken off the worker list only after all of its    *)
(* runners have returned: a worker that is not in the list has a counter   *)
(* of 0 and no runner.                                                     *)
DeregisteredIsIdle ==
    \A w \in Workers \ registered :
        /\ count[w] = 0
        /\ \A h \in BagToSet(runners) : h.worker # w

(* The candidate lists of a claim of w according to the specification: the *)
(* claimable jobs by priority, then run_at; ties come in any order.        *)
CandidateLists(w) ==
    {s \in Perms(Claimable(w)) :
        \A i, k \in DOMAIN s : i < k => ~RowBefore(s[k], s[i])}

(* The longest prefix of rows whose weights sum to at most B. *)
RECURSIVE FittingPrefix(_, _)
FittingPrefix(rows, B) ==
    IF rows = <<>> THEN <<>>
    ELSE LET weight == Weight(jobs[Head(rows)].job_type) IN
         IF weight > B THEN <<>>
         ELSE <<Head(rows)>> \o FittingPrefix(Tail(rows), B - weight)

(* C33: one claim with budget B = max_concurrency - running_count marks    *)
(* Running exactly the longest prefix of the candidate list (at most B     *)
(* rows) whose weights sum to at most B; an idle worker whose candidates   *)
(* all have the weight k, with at least max_concurrency / k of them,       *)
(* claims max_concurrency \div k jobs.                                     *)
ClaimTakesFittingPrefix ==
    [][\A w \in Workers : ClaimStep(w) =>
          LET B == worker[w].max_concurrency - rc[w] IN
          /\ \E c \in CandidateLists(w) :
                Claimed(w) = FittingPrefix(Limit(c, B), B)
          /\ \A k \in 1..worker[w].max_concurrency :
                (/\ rc[w] = 0
                 /\ \A j \in Claimable(w) : Weight(jobs[j].job_type) = k
                 /\ Cardinality(Claimable(w)) >= worker[w].max_concurrency \div k)
                => Len(Claimed(w)) = worker[w].max_concurrency \div k]_vars

(* The same for the claims whose query finds no job that has an owner,     *)
(* whose weights stay within u16 and whose counter is as it was loaded.    *)
ClaimTakesFittingPrefixOfUnowned ==
    [][\A w \in Workers :
          (/\ ClaimStep(w)
           /\ Matching(w) = Claimable(w)
           /\ rc[w] = count[w]
           /\ WeightOf(Matching(w)) + rc[w] < U16) =>
          LET B == worker[w].max_concurrency - rc[w] IN
          /\ \E c \in CandidateLists(w) :
                Claimed(w) = FittingPrefix(Limit(c, B), B)
          /\ \A k \in 1..worker[w].max_concurrency :
                (/\ rc[w] = 0
                 /\ \A j \in Claimable(w) : Weight(jobs[j].job_type) = k
                 /\ Cardinality(Claimable(w)) >= worker[w].max_concurrency \div k)
                => Len(Claimed(w)) = worker[w].max_concurrency \div k]_vars

(* The runner h is the running attempt of a job with autoheartbeat and a   *)
(* positive heartbeat_increment, and its job function has not returned.    *)
BeatingRunner(h) ==
    /\ ~h.done
    /\ Autoheartbeat(jobs[h.job_id].job_type)
    /\ jobs[h.job_id].heartbeat_increment > 0
    /\ OwnedBy(jobs[h.job_id], h.worker)
    /\ jobs[h.job_id].current_try = h.current_try

(* With timers served in time, a job whose auto-heartbeat runs is never    *)
(* past its expires_at while its job function is running.                  *)
HeartbeatKeepsAlive ==
    \A h \in BagToSet(runners) : BeatingRunner(h) => ~Expired(h.job_id)

(* The auto-heartbeat task sends a heartbeat only when the clock has       *)
(* reached expires - min(heartbeat_increment, 30) / 2, and none once the   *)
(* job function has returned.                                              *)
HeartbeatOnlyWhileRunning ==
    [][\A h \in BagToSet(runners) : \A h2 \in BagToSet(runners') :
          (RunnerStep(h, h2) /\ h.hb = None /\ h2.hb # None) =>
             /\ now >= NextHeartbeatTime(h)
             /\ ~h.done]_vars

(* HeartbeatKeepsAlive for heartbeat increments of 2 s and more. *)
HeartbeatKeepsAliveFromTwo ==
    \A h \in BagToSet(runners) :
        (BeatingRunner(h) /\ jobs[h.job_id].heartbeat_increment >= 2)
        => ~Expired(h.job_id)

(* C34: for a job with autoheartbeat and heartbeat_increment > 0 a         *)
(* heartbeat is sent each time the clock reaches expires_at -              *)
(* min(heartbeat_increment, 30) / 2 until the job function returns, so     *)
(* the job is never expired while its function runs, and no heartbeat is   *)
(* sent once the function has returned.                                    *)
AutoHeartbeatKeepsAlive ==
    []HeartbeatKeepsAlive /\ HeartbeatOnlyWhileRunning

(* The weights of the claims of worker w whose runner task has not taken   *)
(* its weight off the counter: the jobs of a committed claim whose runners *)
(* are about to be spawned, and the spawned runners.                       *)
RECURSIVE RunnersWeight(_, _)
RunnersWeight(w, hs) ==
    IF hs = {} THEN 0
    ELSE LET h == CHOOSE x \in hs : TRUE
         IN  (IF h.worker = w
              THEN CopiesIn(h, runners) * Weight(jobs[h.job_id].job_type)
              ELSE 0) + RunnersWeight(w, hs \ {h})

UnfinishedWeight(w) ==
    SumWeights([i \in DOMAIN ready_jobs[w] |-> ready_jobs[w][i].job_id])
    + RunnersWeight(w, BagToSet(runners))

(* The jobs worker w has claimed and whose runner has not finished. *)
UnfinishedJobs(w) ==
    {ready_jobs[w][i].job_id : i \in DOMAIN ready_jobs[w]}
    \cup {h.job_id : h \in {x \in BagToSet(runners) : x.worker = w}}

(* The counter counts every job once. *)
CounterCountsJobsOnce ==
    \A w \in Workers : count[w] = WeightOf(UnfinishedJobs(w))

(* The counter is the weight of the unfinished claims in u16 arithmetic. *)
CounterIsUnfinishedWeightU16 ==
    \A w \in Workers : count[w] = UnfinishedWeight(w) % U16

(* The counter never passes max_concurrency. *)
CounterWithinMax ==
    \A w \in Workers : count[w] >= 0 /\ count[w] <= worker[w].max_concurrency

(* C35: a worker's running_count is the sum of the weights of its claims   *)
(* whose runner has not finished, each claim counted once from its commit  *)
(* to the fetch_sub of its runner task; it is never below 0 nor above      *)
(* max_concurrency, and 0 when no runner is left.                          *)
CounterIsUnfinishedWeight ==
    \A w \in Workers :
        /\ count[w] = UnfinishedWeight(w)
        /\ count[w] >= 0
        /\ count[w] <= worker[w].max_concurrency
        /\ (UnfinishedJobs(w) = {} => count[w] = 0)

(* A step in which worker w's claim transaction ends with an error. *)
ClaimFailStep(w) == pc[w] = "claim" /\ pc'[w] = "loop"

(* A failed claim leaves no job Running and starts no runner. *)
FailedClaimLeavesRows ==
    [][\A w \in Workers :
          ClaimFailStep(w) =>
             /\ jobs' = jobs
             /\ runners' = runners
             /\ ready_jobs'[w] = <<>>]_vars

(* C36: a claim whose transaction fails part-way leaves no job Running,    *)
(* starts no runner and leaves the worker's running_count as it was        *)
(* before the claim.                                                       *)
ClaimAllOrNothing ==
    [][\A w \in Workers :
          ClaimFailStep(w) =>
             /\ jobs' = jobs
             /\ runners' = runners
             /\ ready_jobs'[w] = <<>>
             /\ count'[w] = count[w]]_vars

(* C37: a ready Pending job of a type a running worker accepts, whose      *)
(* weight is at most the worker's max_concurrency, is eventually claimed,  *)
(* also when a job of higher priority that does not fit precedes it in the *)
(* order of the query; runners finish and there is no shutdown.            *)
FittingJobIsClaimed ==
    \A w \in 1..MaxWorkers : \A j \in 1..MaxFitJobs :
        (/\ ReadyFor(w, j)
         /\ Weight(jobs[j].job_type) <= worker[w].max_concurrency)
        ~> (j \in JobIds /\ ~Pending(jobs, j))

(* Three jobs were ready when the worker was built: m with priority 2, n   *)
(* with priority 1 and m with priority 0.  The first claim took the first  *)
(* and stopped at n, which did not fit; n has run since, and the worker    *)
(* now owns the job of priority 0.                                         *)
FittingJobIsClaimedWitness ==
    \E w \in Workers : \E a, b, c \in JobIds :
        /\ jobs[a].job_type = "m" /\ jobs[a].priority = 2 /\ jobs[a].run_at = 0
        /\ jobs[b].job_type = "n" /\ jobs[b].priority = 1 /\ jobs[b].run_at = 0
        /\ jobs[c].job_type = "m" /\ jobs[c].priority = 0 /\ jobs[c].run_at = 0
        /\ worker[w].max_concurrency = 2
        /\ StateOf(jobs[a]) = "Succeeded"
        /\ StateOf(jobs[b]) = "Succeeded"
        /\ jobs[c].worker_id = Some(w)

(* The dispatcher of w is not waiting in its select!. *)
Busy(w) == w \in Workers /\ pc[w] \in {"loop", "claim", "start"}

(* C38: a job-finished signal raised while the dispatcher is not waiting   *)
(* is kept until the select! takes it: when the counter has gone below the *)
(* value the dispatcher loaded for its claim, the signal is there; the     *)
(* select! then brings the dispatcher back to the top of its loop, and     *)
(* with nothing left that could send another signal a ready job of an      *)
(* accepted type is claimed.                                               *)
NoLostWakeUp ==
    /\ [][\A w \in Workers :
            (job_finished[w] /\ ~job_finished'[w]) =>
               /\ pc[w] \in {"select", "select_grab"}
               /\ pc'[w] = "loop"]_vars
    /\ [](\A w \in Workers :
            (pc[w] \in {"claim", "start"} /\ count[w] < rc[w]) => job_finished[w])
    /\ \A w \in 1..MaxWorkers :
          (Busy(w) /\ job_finished[w])
          ~> (w \in Workers /\ pc[w] = "loop" /\ ~job_finished[w])
    /\ \A w \in 1..MaxWorkers : \A j \in 1..MaxFitJobs :
          (/\ Busy(w) /\ job_finished[w]
           /\ runners = EmptyBag /\ ready_jobs[w] = <<>>
           /\ ReadyFor(w, j))
          ~> (j \in JobIds /\ ~Pending(jobs, j))

(* The last runner of the worker finished while the dispatcher was in its  *)
(* claim: the claim, made with the counter loaded before, took nothing,    *)
(* the counter is 0, a job is ready and the signal is there.               *)
NoLostWakeUpWitness ==
    \E w \in Workers : \E j \in JobIds :
        /\ pc[w] = "start"
        /\ job_finished[w]
        /\ runners = EmptyBag /\ ready_jobs[w] = <<>>
        /\ count[w] = 0
        /\ ReadyFor(w, j)

(* A step of a close() that found the tasks taken, or of a drop that did. *)
OtherCloseStep ==
    \/ tasks'.calls > tasks.calls
    \/ tasks'.dropped /\ ~tasks.dropped /\ tasks.wait # "none"

(* C39: whatever the number and order of close() calls and the drop of the *)
(* Queue, the close signal is sent once and the Close operation reaches    *)
(* the writer once, both by the call that took the tasks; every other call *)
(* changes nothing.                                                        *)
ShutdownOnce ==
    /\ [](/\ tasks.sends <= 1
          /\ tasks.closes <= 1
          /\ tasks.closes <= tasks.sends
          /\ (tasks.calls > 0 \/ tasks.dropped) => tasks.sends = 1
          /\ tasks.wait = "returned" => tasks.closes = 1)
    /\ [][OtherCloseStep =>
            /\ tasks'.sends = tasks.sends /\ tasks'.closes = tasks.closes
            /\ tasks'.close = tasks.close /\ tasks'.wait = tasks.wait
            /\ tasks'.db_write_worker = tasks.db_write_worker
            /\ tasks'.res = tasks.res /\ tasks'.deadline = tasks.deadline
            /\ registered' = registered /\ pc' = pc]_vars

(* close() was called twice after the call that took the tasks, the Queue  *)
(* was dropped, and the shutdown has been carried out once.                *)
ShutdownOnceWitness ==
    /\ tasks.calls = MaxCloseCalls
    /\ tasks.dropped
    /\ tasks.wait = "returned"
    /\ tasks.sends = 1 /\ tasks.closes = 1

(* C40: the Close operation is sent to the writer only when the wait of    *)
(* close() for the workers has ended, with a worker count of 0 or with the *)
(* timeout elapsed, and it is sent in both cases; while a worker is        *)
(* registered the writer is closed only after the timeout has elapsed.     *)
WriterClosedAfterWait ==
    /\ [](/\ tasks.wait \in {"none", "waiting", "closing"} => tasks.db_write_worker
          /\ tasks.wait = "returned" => ~tasks.db_write_worker /\ tasks.res # None
          /\ (~tasks.db_write_worker /\ registered # {}) =>
                (tasks.res = Some("Timeout") /\ now >= tasks.deadline))
    /\ [][(tasks.db_write_worker /\ ~tasks'.db_write_worker) =>
            /\ tasks.wait = "closing"
            /\ tasks.res \in {Some("Ok"), Some("Timeout")}
            /\ tasks.res = Some("Ok") => registered = {}
            /\ tasks.res = Some("Timeout") => now >= tasks.deadline]_vars

(* close(1) has waited a second for a worker whose job is still running,   *)
(* has timed out and has closed the writer; the worker is registered.      *)
WriterClosedAfterWaitWitness ==
    /\ ~tasks.db_write_worker
    /\ tasks.res = Some("Timeout")
    /\ tasks.deadline > 0
    /\ registered # {}
    /\ runners # EmptyBag

====
